---------------------------- MODULE Spec2Model ----------------------------
(***************************************************************************)
(* A model of blogster: relay settings, the post record and its backing   *)
(* text format, the Nostr publisher and the Blossom media uploader.       *)
(*                                                                         *)
(* Rust Strings are modelled as sequences of one-character strings, so    *)
(* that starts_with, len, contains, trim, replace, sort and the like are  *)
(* computed character by character as the code computes them.             *)
(***************************************************************************)
EXTENDS Integers, Sequences, FiniteSets, TLC

VARIABLES
    \* ---- RelaySettings (src/src/relay_settings.rs) ----
    custom_relays,        \* Vec<String>
    use_default_relays,   \* bool
    use_custom_relays,    \* bool
    relay_call,           \* the last RelaySettings call: what it was given, found and returned
    active_ret,           \* what the get_active_relays calls returned since the settings last changed
    \* ---- BlogPost (src/src/post.rs) ----
    now,                  \* what Utc::now() returns
    post,                 \* the BlogPost being edited
    markdown_ret,         \* Some(what to_markdown_with_frontmatter returned for post) or None
    parse_ret,            \* Some(what from_markdown_with_frontmatter made of markdown_ret) or None
    \* ---- NostrClient (src/src/nostr_client.rs) behind Arc<Mutex<..>> ----
    credentials,          \* NostrClient::credentials: Option<NostrCredentials>
    signer,               \* the Keys self.client signs with
    pool,                 \* the relays added to self.client
    lock,                 \* who holds the Mutex of the shared NostrClient
    \* ---- one call of NostrClient::publish_long_form_post ----
    pub_pc,               \* where the call is
    pub_post,             \* Some(its post argument) or None
    pub_settings,         \* Some(its relay_settings argument) or None
    event_tags,           \* Some(the tags it built) or None
    relay_up,             \* the relays whose connection is up after the settling delay
    signed_event,         \* Some(the event it signed) or None
    relay_acks,           \* the relays that accepted the event
    pub_ret,              \* Some(what the call returned) or None
    pub_effects,          \* what the call did so far, in order: "connect", "settled", "sign", "send"
    last_built,           \* Some(id, title and identifier tag of the event the call before built)
    \* ---- one call of BlossomClient::upload_file (src/src/blossom_client.rs) ----
    up_pc,                \* where the call is
    up_file,              \* Some(the file picked) or None
    up_hash,              \* Some(the SHA-256 of its content, in hexadecimal) or None
    up_auth,              \* Some(the Authorization header) or None
    http_requests,        \* the HTTP requests the call sent
    up_resp,              \* Some(the answer of the media host) or None
    up_ret,               \* Some(what the call returned) or None
    up_log,               \* what the call logged
    \* ---- the private-key functions of NostrClient ----
    key_calls,            \* the last two calls: function, private key text, result
    \* ---- PublishDialog (src/src/components/publish_dialog.rs) and its task ----
    dialog,               \* the fields of the PublishDialog
    show_ret,             \* what the last PublishDialog::show returned to App::update
    task_pc,              \* where the task spawned by start_publishing is
    task_post,            \* Some(the post moved into the task) or None
    task_ret,             \* Some(the result the task last logged) or None
    \* ---- the calls of NostrClient::set_credentials ----
    cred_call,            \* Some(the last call: its argument, the client before it, its result) or None
    \* ---- the top panel and the CredentialsDialog (src/src/components/credentials_dialog.rs) ----
    creds_text,           \* the credentials indicator the top panel last drew
    cred_dialog,          \* the fields of the CredentialsDialog
    cred_task,            \* Some(the credentials of the task Save spawned) or None
    \* ---- the credential store of Storage (src/src/storage.rs) ----
    keyring,              \* Some(the credentials of the keyring entry) or None
    cred_file,            \* Some(the credentials of the file credentials.enc) or None
    store_call,           \* Some(the last call: function, argument, result) or None
    store_last_ok,        \* Some(the last save or delete that returned Ok) or None
    \* ---- the posts directory of Storage ----
    posts_dir,            \* the files of the directory: name and text
    loaded_posts          \* Some(what load_all_posts returned from this directory) or None

relayVars   == <<custom_relays, use_default_relays, use_custom_relays, relay_call, active_ret>>
postVars    == <<now, post, markdown_ret, parse_ret>>
clientVars  == <<credentials, signer, pool, lock>>
publishVars == <<pub_pc, pub_post, pub_settings, event_tags, relay_up, signed_event,
                 relay_acks, pub_ret, pub_effects, last_built>>

uploadVars  == <<up_pc, up_file, up_hash, up_auth, http_requests, up_resp, up_ret, up_log>>

keyVars     == <<key_calls>>

dialogVars  == <<dialog, show_ret, task_pc, task_post, task_ret>>

credVars    == <<cred_call>>

uiVars      == <<creds_text, cred_dialog, cred_task>>

storeVars   == <<keyring, cred_file, store_call, store_last_ok>>

fileVars    == <<posts_dir, loaded_posts>>

vars == <<relayVars, postVars, clientVars, publishVars, uploadVars, keyVars, dialogVars,
          credVars, uiVars, storeVars, fileVars>>

-----------------------------------------------------------------------------
(* Strings *)

\* The printable ASCII characters in code order, from 32 (space) to 126 (~);
\* the entry for code 96 keeps the place of the grave accent, which no String
\* of the model holds.
AsciiTable ==
    <<" ","!","\"","#","$","%","&","'","(",")","*","+",",","-",".","/",
      "0","1","2","3","4","5","6","7","8","9",":",";","<","=",">","?",
      "@","A","B","C","D","E","F","G","H","I","J","K","L","M","N","O",
      "P","Q","R","S","T","U","V","W","X","Y","Z","[","\\","]","^","_",
      "(grave)","a","b","c","d","e","f","g","h","i","j","k","l","m","n","o",
      "p","q","r","s","t","u","v","w","x","y","z","{","|","}","~">>

Chars == {AsciiTable[i] : i \in 1..Len(AsciiTable)} \cup {"\n"}

\* The byte value of a character (String's Ord compares bytes).
Ascii == [c \in Chars |->
            IF c = "\n" THEN 10
            ELSE 31 + (CHOOSE i \in 1..Len(AsciiTable) : AsciiTable[i] = c)]

\* a < b for Strings: lexicographic on the bytes.
RECURSIVE StrLess(_, _)
StrLess(a, b) ==
    IF b = <<>> THEN FALSE
    ELSE IF a = <<>> THEN TRUE
    ELSE IF a[1] = b[1] THEN StrLess(Tail(a), Tail(b))
    ELSE Ascii[a[1]] < Ascii[b[1]]

\* str::starts_with
StartsWith(s, p) == Len(s) >= Len(p) /\ SubSeq(s, 1, Len(p)) = p

\* Vec::contains, str::contains(char)
Contains(seq, x) == \E i \in 1..Len(seq) : seq[i] = x

\* No element of the sequence occurs twice.
NoDup(seq) == \A i, j \in 1..Len(seq) : seq[i] = seq[j] => i = j

\* The set of a sequence's elements.
Range(seq) == {seq[i] : i \in 1..Len(seq)}

\* The place of x in an ascending sequence.
RECURSIVE InsertSorted(_, _)
InsertSorted(sorted, x) ==
    IF sorted = <<>> THEN <<x>>
    ELSE IF StrLess(x, sorted[1]) THEN <<x>> \o sorted
    ELSE <<sorted[1]>> \o InsertSorted(Tail(sorted), x)

\* Vec<String>::sort: ascending; equal Strings are indistinguishable, so the
\* stable sort's result is the ascending arrangement.
RECURSIVE SortStrings(_)
SortStrings(seq) ==
    IF seq = <<>> THEN <<>>
    ELSE InsertSorted(SortStrings(SubSeq(seq, 1, Len(seq) - 1)), seq[Len(seq)])

\* Vec::dedup: removes consecutive repeated elements.
RECURSIVE Dedup(_)
Dedup(seq) ==
    IF Len(seq) <= 1 THEN seq
    ELSE IF seq[1] = seq[2] THEN Dedup(Tail(seq))
    ELSE <<seq[1]>> \o Dedup(Tail(seq))


\* Option<T>: None is the empty sequence, Some(v) the sequence of v alone.
None == <<>>
Some(v) == <<v>>

\* Result: Err(message) and Ok(value).
Err(message) == [ok |-> FALSE, error |-> message]
Ok(value)    == [ok |-> TRUE, value |-> value]

\* The index of the last occurrence of the character c in s, or 0.
LastIndex(s, c) ==
    LET at == {i \in 1..Len(s) : s[i] = c}
    IN  IF at = {} THEN 0 ELSE CHOOSE i \in at : \A j \in at : j <= i

\* a followed by b followed by c (push_str, format!).
Concat3(a, b, c) == a \o b \o c

\* char::is_whitespace for the characters of the model.
IsWhitespace(c) == c \in {" ", "\n"}

\* str::trim
Trim(s) ==
    LET kept == {i \in 1..Len(s) : ~IsWhitespace(s[i])}
    IN  IF kept = {} THEN <<>>
        ELSE SubSeq(s, CHOOSE i \in kept : \A j \in kept : i <= j,
                       CHOOSE i \in kept : \A j \in kept : i >= j)

\* str::trim_matches(c): drops every leading and every trailing c.
TrimMatches(s, c) ==
    LET kept == {i \in 1..Len(s) : s[i] # c}
    IN  IF kept = {} THEN <<>>
        ELSE SubSeq(s, CHOOSE i \in kept : \A j \in kept : i <= j,
                       CHOOSE i \in kept : \A j \in kept : i >= j)

\* str::find(pat): Some(the 0-based place of the first occurrence) or None.
Find(s, pat) ==
    LET hits == {i \in 0..(Len(s) - Len(pat)) : SubSeq(s, i + 1, i + Len(pat)) = pat}
    IN  IF hits = {} THEN None ELSE Some(CHOOSE i \in hits : \A j \in hits : i <= j)

\* &s[from..], from counted from 0.
SliceFrom(s, from) == SubSeq(s, from + 1, Len(s))

\* &s[from..to], both counted from 0.
Slice(s, from, to) == SubSeq(s, from + 1, to)

\* str::replace(c, with)
RECURSIVE Replace(_, _, _)
Replace(s, c, with) ==
    IF s = <<>> THEN <<>>
    ELSE (IF s[1] = c THEN with ELSE <<s[1]>>) \o Replace(Tail(s), c, with)

\* str::lines: the pieces between line feeds; a last piece that is empty is
\* not a line.
RECURSIVE Lines(_)
Lines(s) ==
    IF s = <<>> THEN <<>>
    ELSE LET nl == Find(s, <<"\n">>)
         IN  IF nl = None THEN <<s>>
             ELSE <<Slice(s, 0, nl[1])>> \o Lines(SliceFrom(s, nl[1] + 1))

\* str::split_once(c): Some(<<before, after>>) at the first c, or None.
SplitOnce(s, c) ==
    LET at == Find(s, <<c>>)
    IN  IF at = None THEN None
        ELSE Some(<<Slice(s, 0, at[1]), SliceFrom(s, at[1] + 1)>>)

\* The concatenation of a sequence of Strings.
RECURSIVE Flatten(_)
Flatten(seqs) == IF seqs = <<>> THEN <<>> ELSE seqs[1] \o Flatten(Tail(seqs))

-----------------------------------------------------------------------------
(* RelaySettings *)

RelayDamus     == <<"w","s","s",":","/","/","r","e","l","a","y",".","d","a","m","u","s",".","i","o">>
RelayNosLol    == <<"w","s","s",":","/","/","n","o","s",".","l","o","l">>
RelayNostrBand == <<"w","s","s",":","/","/","r","e","l","a","y",".","n","o","s","t","r",".","b","a","n","d">>
RelayWellorder == <<"w","s","s",":","/","/","n","o","s","t","r","-","p","u","b",".","w","e","l","l","o","r","d","e","r",".","n","e","t">>
RelaySnort     == <<"w","s","s",":","/","/","r","e","l","a","y",".","s","n","o","r","t",".","s","o","c","i","a","l">>

\* RelaySettings::get_default_relays
get_default_relays == <<RelayDamus, RelayNosLol, RelayNostrBand, RelayWellorder, RelaySnort>>

WssScheme == <<"w","s","s",":","/","/">>
WsScheme  == <<"w","s",":","/","/">>

\* The URLs the user types into the relay dialog.
UrlCustom    == <<"w","s","s",":","/","/","c","u","s","t","o","m",".","r","e","l","a","y",".","c","o","m">>
UrlLocalhost == <<"w","s",":","/","/","l","o","c","a","l","h","o","s","t",":","8","0","8","0">>
UrlHttps     == <<"h","t","t","p","s",":","/","/","e","x","a","m","p","l","e",".","c","o","m">>
UrlShort     == <<"w","s",":","/","/","a",".","i","o">>

\* A default relay written with the path "/".
UrlNosLolSlash == RelayNosLol \o <<"/">>
UrlInputs == {UrlCustom, UrlLocalhost, RelayNosLol, UrlNosLolSlash, UrlHttps, UrlShort, WssScheme}

\* The longest custom relay list the model builds.
MaxCustom == 2

\* The least length add_relay and validate_relay_url accept.
MinUrlLen == 10

\* The settings as a value: what &self is in a call.
RelaySelf == [custom_relays |-> custom_relays,
              use_default_relays |-> use_default_relays,
              use_custom_relays |-> use_custom_relays]

NoCall == [op |-> "none"]

\* RelaySettings::get_active_relays without the fallback to the defaults.
get_active_relays_no_fallback(self) ==
    Dedup(SortStrings(
        (IF self.use_default_relays THEN get_default_relays ELSE <<>>)
        \o (IF self.use_custom_relays THEN self.custom_relays ELSE <<>>)))

\* RelaySettings::get_active_relays without dedup.
get_active_relays_no_dedup(self) ==
    LET relays == SortStrings(
            (IF self.use_default_relays THEN get_default_relays ELSE <<>>)
            \o (IF self.use_custom_relays THEN self.custom_relays ELSE <<>>))
    IN  IF relays = <<>> THEN get_default_relays ELSE relays

get_active_relays_unsorted(self) ==
    LET extended == (IF self.use_default_relays THEN get_default_relays ELSE <<>>)
                    \o (IF self.use_custom_relays THEN self.custom_relays ELSE <<>>)
        relays   == Dedup(extended)
    IN  IF relays = <<>> THEN get_default_relays ELSE relays

\* RelaySettings::get_active_relays
get_active_relays(self) ==
    LET extended == (IF self.use_default_relays THEN get_default_relays ELSE <<>>)
                    \o (IF self.use_custom_relays THEN self.custom_relays ELSE <<>>)
        relays   == Dedup(SortStrings(extended))
    IN  IF relays = <<>> THEN get_default_relays ELSE relays

\* A call of get_active_relays(&self): the settings are borrowed immutably.
GetActiveRelays ==
    /\ Len(active_ret) < 2
    /\ active_ret' = Append(active_ret, get_active_relays(RelaySelf))
    /\ relay_call' = [op |-> "get", before |-> RelaySelf]
    /\ UNCHANGED <<custom_relays, use_default_relays, use_custom_relays, postVars, clientVars, publishVars, uploadVars, keyVars, dialogVars, credVars, uiVars, storeVars, fileVars>>

\* RelaySettings::add_relay without the check for duplicates.
AddRelayNoDuplicateCheck(relay_url) ==
    LET bad == \/ ~StartsWith(relay_url, WssScheme) /\ ~StartsWith(relay_url, WsScheme)
               \/ Len(relay_url) < MinUrlLen
    IN  /\ Len(custom_relays) < MaxCustom
        /\ custom_relays' = IF bad THEN custom_relays ELSE Append(custom_relays, relay_url)
        /\ relay_call' = [op |-> "add", url |-> relay_url, ok |-> ~bad, before |-> RelaySelf]
        /\ active_ret' = <<>>
        /\ UNCHANGED <<use_default_relays, use_custom_relays, postVars, clientVars, publishVars, uploadVars, keyVars, dialogVars, credVars, uiVars, storeVars, fileVars>>

\* RelaySettings::add_relay
AddRelay(relay_url) ==
    LET err == IF ~StartsWith(relay_url, WssScheme) /\ ~StartsWith(relay_url, WsScheme)
                   THEN "scheme"
               ELSE IF Len(relay_url) < MinUrlLen THEN "short"
               ELSE IF Contains(custom_relays, relay_url) THEN "exists"
               ELSE "none"
    IN  /\ Len(custom_relays) < MaxCustom \/ err # "none"
        /\ custom_relays' = IF err = "none" THEN Append(custom_relays, relay_url)
                            ELSE custom_relays
        /\ relay_call' = [op |-> "add", url |-> relay_url, ok |-> (err = "none"),
                          before |-> RelaySelf]
        /\ active_ret' = <<>>
        /\ UNCHANGED <<use_default_relays, use_custom_relays, postVars, clientVars, publishVars, uploadVars, keyVars, dialogVars, credVars, uiVars, storeVars, fileVars>>

\* Vec::remove(index)
RemoveAt(seq, index) == SubSeq(seq, 1, index - 1) \o SubSeq(seq, index + 1, Len(seq))

\* RelaySettings::remove_relay: removes the first entry equal to relay_url.
RemoveRelay(relay_url) ==
    LET found == Contains(custom_relays, relay_url)
        index == CHOOSE i \in 1..Len(custom_relays) :
                    /\ custom_relays[i] = relay_url
                    /\ \A j \in 1..(i - 1) : custom_relays[j] # relay_url
    IN  /\ custom_relays' = IF found THEN RemoveAt(custom_relays, index) ELSE custom_relays
        /\ relay_call' = [op |-> "remove", url |-> relay_url, ok |-> found,
                          before |-> RelaySelf]
        /\ active_ret' = <<>>
        /\ UNCHANGED <<use_default_relays, use_custom_relays, postVars, clientVars, publishVars, uploadVars, keyVars, dialogVars, credVars, uiVars, storeVars, fileVars>>

\* The relay dialog's "Use default relays" checkbox.
SetUseDefault(b) ==
    /\ b # use_default_relays
    /\ use_default_relays' = b
    /\ relay_call' = [op |-> "use_default", before |-> RelaySelf]
    /\ active_ret' = <<>>
    /\ UNCHANGED <<custom_relays, use_custom_relays, postVars, clientVars, publishVars, uploadVars, keyVars, dialogVars, credVars, uiVars, storeVars, fileVars>>

\* The relay dialog's "Use custom relays" checkbox.
SetUseCustom(b) ==
    /\ b # use_custom_relays
    /\ use_custom_relays' = b
    /\ relay_call' = [op |-> "use_custom", before |-> RelaySelf]
    /\ active_ret' = <<>>
    /\ UNCHANGED <<custom_relays, use_default_relays, postVars, clientVars, publishVars, uploadVars, keyVars, dialogVars, credVars, uiVars, storeVars, fileVars>>

\* RelaySettings::default
\* The least length validate_relay_url accepts.
ValidateMinUrlLen == 10

validate_relay_url_without_dot(url) ==
    IF ~StartsWith(url, WssScheme) /\ ~StartsWith(url, WsScheme)
        THEN Err("URL must start with wss:// or ws://")
    ELSE IF Len(url) < ValidateMinUrlLen THEN Err("URL is too short")
    ELSE Ok("()")

\* RelaySettings::validate_relay_url
validate_relay_url(url) ==
    IF ~StartsWith(url, WssScheme) /\ ~StartsWith(url, WsScheme)
        THEN Err("URL must start with wss:// or ws://")
    ELSE IF Len(url) < ValidateMinUrlLen THEN Err("URL is too short")
    ELSE IF ~Contains(url, ".") THEN Err("Invalid URL format")
    ELSE Ok("()")

\* A caller asks whether a relay address is well-formed; the settings stay.
ValidateRelayUrl(url) ==
    /\ relay_call' = [op |-> "validate", url |-> url, ret |-> validate_relay_url(url)]
    /\ UNCHANGED <<custom_relays, use_default_relays, use_custom_relays, active_ret,
                   postVars, clientVars, publishVars, uploadVars, keyVars, dialogVars, credVars, uiVars, storeVars, fileVars>>

RelayInit ==
    /\ custom_relays = <<>>
    /\ use_default_relays = TRUE
    /\ use_custom_relays = FALSE
    /\ relay_call = NoCall
    /\ active_ret = <<>>

RelayNext ==
    \/ GetActiveRelays
    \/ \E relay_url \in UrlInputs : AddRelay(relay_url)
    \/ \E relay_url \in UrlInputs : RemoveRelay(relay_url)
    \/ \E b \in BOOLEAN : SetUseDefault(b)
    \/ \E b \in BOOLEAN : SetUseCustom(b)
    \/ \E url \in UrlInputs : ValidateRelayUrl(url)

-----------------------------------------------------------------------------
(* BlogPost *)

\* The latest instant the clock of the model reaches.
MaxTime == 1

\* The number of post ids (Uuids) of the model.
MaxIds == 2

PostIds == 1..MaxIds
Times   == 0..MaxTime

Digit(n) == AsciiTable[17 + n]

\* Uuid's Display: the hyphenated form; the model's Uuids differ in the
\* last digit.
UuidStr(id) ==
    <<"0","0","0","0","0","0","0","0","-","0","0","0","0","-","4","0","0","0","-",
      "8","0","0","0","-","0","0","0","0","0","0","0","0","0","0","0">> \o <<Digit(id)>>

\* Uuid::parse_str: Some(id) for the text of a Uuid, None otherwise.
UuidParse(str) ==
    IF \E id \in 0..9 : UuidStr(id) = str
    THEN Some(CHOOSE id \in 0..9 : UuidStr(id) = str)
    ELSE None

\* DateTime<Utc>::to_rfc3339 of the instants of the model, seconds 0 to 9 of
\* one minute.
to_rfc3339(t) ==
    Concat3(<<"2","0","2","4","-","0","1","-","0","1","T","0","0",":","0","0",":","0">>,
            <<Digit(t)>>,
            <<"+","0","0",":","0","0">>)

StatusDraft     == <<"D","r","a","f","t">>
StatusPublished == <<"P","u","b","l","i","s","h","e","d">>
StatusFailed    == <<"F","a","i","l","e","d">>

\* PostStatus's Debug form, "{:?}".
StatusDebug(status) == status

\* The values the editor and the publisher give to a post's fields.
TitleNew     == <<"T">>
TitleQuoted  == <<"a","\"","b">>
TitleBlank   == <<" ">>
TitleInputs  == {<<>>, TitleBlank, TitleNew, TitleQuoted}
ContentBody  == <<"C">>
ContentInputs == {<<>>, ContentBody}
TagA         == <<"a">>
TagB         == <<"b">>
TagInputs    == {TagA, TagB}
ImageUrl     == <<"h","t","t","p","s",":","/","/","b","/","i",".","p","n","g">>
SummaryText  == <<"S">>
EventIdHex   == <<"e","1">>

\* BlogPost::default
BlogPostDefault(id, t) ==
    [id |-> id, title |-> <<>>, content |-> <<>>, summary |-> None, tags |-> <<>>,
     image_url |-> None, created_at |-> t, updated_at |-> t, status |-> StatusDraft,
     nostr_event_id |-> None, published_relays |-> <<>>, file_path |-> None]

\* BlogPost::with_title
with_title(self, title, t) == [self EXCEPT !.title = title, !.updated_at = t]

\* BlogPost::with_content
with_content(self, content, t) == [self EXCEPT !.content = content, !.updated_at = t]

\* BlogPost::add_tag
add_tag(self, tag, t) ==
    IF ~Contains(self.tags, tag)
    THEN [self EXCEPT !.tags = Append(@, tag), !.updated_at = t]
    ELSE self

\* BlogPost::remove_tag
remove_tag(self, tag, t) ==
    [self EXCEPT !.tags = SelectSeq(@, LAMBDA x : x # tag), !.updated_at = t]

\* BlogPost::set_image
set_image(self, image_url, t) ==
    [self EXCEPT !.image_url = Some(image_url), !.updated_at = t]

\* BlogPost::set_published
set_published(self, event_id, relays, t) ==
    [self EXCEPT !.status = StatusPublished, !.nostr_event_id = Some(event_id),
                 !.published_relays = relays, !.updated_at = t]

set_failed_keeps_time(self, t) == [self EXCEPT !.status = StatusFailed]

\* BlogPost::set_failed
set_failed(self, t) == [self EXCEPT !.status = StatusFailed, !.updated_at = t]

is_ready_to_publish_no_trim(self) == self.title # <<>> /\ self.content # <<>>

\* BlogPost::is_ready_to_publish
is_ready_to_publish(self) == Trim(self.title) # <<>> /\ Trim(self.content) # <<>>

\* One frontmatter line, key: "value".
FrontmatterLine(key, value) == key \o <<":"," ","\"">> \o value \o <<"\"","\n">>

\* One item of a frontmatter list, an indented - "item".
FrontmatterItem(item) == <<" "," ","-"," ","\"">> \o item \o <<"\"","\n">>

EscapedQuote == <<"\\","\"">>

KeyTitle        == <<"t","i","t","l","e">>
KeyId           == <<"i","d">>
KeyCreatedAt    == <<"c","r","e","a","t","e","d","_","a","t">>
KeyUpdatedAt    == <<"u","p","d","a","t","e","d","_","a","t">>
KeyStatus       == <<"s","t","a","t","u","s">>
KeySummary      == <<"s","u","m","m","a","r","y">>
KeyTags         == <<"t","a","g","s">>
KeyImage        == <<"i","m","a","g","e">>
KeyNostrEventId == <<"n","o","s","t","r","_","e","v","e","n","t","_","i","d">>
KeyPublishedRelays == <<"p","u","b","l","i","s","h","e","d","_","r","e","l","a","y","s">>

FrontmatterOpen  == <<"-","-","-","\n">>
FrontmatterClose == <<"\n","-","-","-","\n">>

\* BlogPost::to_markdown_with_frontmatter
to_markdown_with_frontmatter(self) ==
    Flatten(<<
        FrontmatterOpen,
        FrontmatterLine(KeyTitle, Replace(self.title, "\"", EscapedQuote)),
        FrontmatterLine(KeyId, UuidStr(self.id)),
        FrontmatterLine(KeyCreatedAt, to_rfc3339(self.created_at)),
        FrontmatterLine(KeyUpdatedAt, to_rfc3339(self.updated_at)),
        FrontmatterLine(KeyStatus, StatusDebug(self.status)),
        IF self.summary # None
            THEN FrontmatterLine(KeySummary, Replace(self.summary[1], "\"", EscapedQuote))
            ELSE <<>>,
        IF self.tags # <<>>
            THEN KeyTags \o <<":","\n">>
                 \o Flatten([i \in 1..Len(self.tags) |->
                        FrontmatterItem(Replace(self.tags[i], "\"", EscapedQuote))])
            ELSE <<>>,
        IF self.image_url # None THEN FrontmatterLine(KeyImage, self.image_url[1]) ELSE <<>>,
        IF self.nostr_event_id # None
            THEN FrontmatterLine(KeyNostrEventId, self.nostr_event_id[1])
            ELSE <<>>,
        IF self.published_relays # <<>>
            THEN KeyPublishedRelays \o <<":","\n">>
                 \o Flatten([i \in 1..Len(self.published_relays) |->
                        FrontmatterItem(self.published_relays[i])])
            ELSE <<>>,
        <<"-","-","-","\n","\n">>,
        self.content >>)

\* The match on one frontmatter line's key, in from_markdown_with_frontmatter.
ParseLine(p, line) ==
    LET kv == SplitOnce(line, ":")
    IN  IF kv = None THEN p
        ELSE LET key   == Trim(kv[1][1])
                 value == TrimMatches(Trim(kv[1][2]), "\"")
             IN  IF key = KeyTitle THEN [p EXCEPT !.title = value]
                 ELSE IF key = KeyId
                     THEN (IF UuidParse(value) # None
                           THEN [p EXCEPT !.id = UuidParse(value)[1]] ELSE p)
                 ELSE IF key = KeySummary THEN [p EXCEPT !.summary = Some(value)]
                 ELSE IF key = KeyImage THEN [p EXCEPT !.image_url = Some(value)]
                 ELSE IF key = KeyNostrEventId THEN [p EXCEPT !.nostr_event_id = Some(value)]
                 ELSE IF key = KeyStatus
                     THEN [p EXCEPT !.status =
                              IF value = StatusPublished THEN StatusPublished
                              ELSE IF value = StatusFailed THEN StatusFailed
                              ELSE StatusDraft]
                 ELSE p

\* The loop over the frontmatter's lines.
RECURSIVE ParseLines(_, _)
ParseLines(p, lines) ==
    IF lines = <<>> THEN p ELSE ParseLines(ParseLine(p, lines[1]), Tail(lines))

\* BlogPost::from_markdown_with_frontmatter; default is the BlogPost::default()
\* it starts from.
from_markdown_with_frontmatter(content, file_path, default) ==
    LET start == [default EXCEPT !.file_path = file_path]
    IN  IF StartsWith(content, FrontmatterOpen)
        THEN LET end_pos == Find(SliceFrom(content, 4), FrontmatterClose)
             IN  IF end_pos # None
                 THEN ParseLines(
                        [start EXCEPT !.content = SliceFrom(content, end_pos[1] + 8)],
                        Lines(Slice(content, 4, end_pos[1] + 4)))
                 ELSE start
        ELSE LET headings == SelectSeq(Lines(content), LAMBDA l : StartsWith(l, <<"#"," ">>))
             IN  [start EXCEPT !.content = content,
                               !.title = IF headings # <<>>
                                         THEN Trim(SliceFrom(headings[1], 2)) ELSE @]

\* Time passes.
Tick ==
    /\ now < MaxTime
    /\ now' = now + 1
    /\ UNCHANGED <<post, markdown_ret, parse_ret, relayVars, clientVars, publishVars, uploadVars, keyVars, dialogVars, credVars, uiVars, storeVars, fileVars>>

\* The sidebar's New Post: BlogPost::new() with a fresh Uuid.
NewPost(id) ==
    /\ id # post.id
    /\ post' = [BlogPostDefault(id, now) EXCEPT !.title = TitleNew]
    /\ markdown_ret' = None /\ parse_ret' = None
    /\ UNCHANGED <<now, relayVars, clientVars, publishVars, uploadVars, keyVars, dialogVars, credVars, uiVars, storeVars, fileVars>>

\* A call of an editing or status operation on the post, which becomes result.
Edit(result) ==
    /\ post' = result
    /\ markdown_ret' = None /\ parse_ret' = None
    /\ UNCHANGED <<now, relayVars, clientVars, publishVars, uploadVars, keyVars, dialogVars, credVars, uiVars, storeVars, fileVars>>

WithTitle(title)     == Edit(with_title(post, title, now))
WithContent(content) == Edit(with_content(post, content, now))
AddTag(tag)          == Edit(add_tag(post, tag, now))
RemoveTag(tag)       == Edit(remove_tag(post, tag, now))
SetImage(image_url)  == Edit(set_image(post, image_url, now))
SetPublished(event_id, relays) == Edit(set_published(post, event_id, relays, now))
SetFailed            == Edit(set_failed(post, now))

\* A call of post.to_markdown_with_frontmatter().
ToMarkdown ==
    /\ markdown_ret = None
    /\ markdown_ret' = Some(to_markdown_with_frontmatter(post))
    /\ UNCHANGED <<now, post, parse_ret, relayVars, clientVars, publishVars, uploadVars, keyVars, dialogVars, credVars, uiVars, storeVars, fileVars>>

\* A call of BlogPost::from_markdown_with_frontmatter on the text the last
\* to_markdown_with_frontmatter returned; the default post it starts from has
\* a fresh Uuid and the time of the call.
FromMarkdown(fresh) ==
    /\ markdown_ret # None
    /\ parse_ret = None
    /\ parse_ret' = Some(from_markdown_with_frontmatter(
                            markdown_ret[1], None, BlogPostDefault(fresh, now)))
    /\ UNCHANGED <<now, post, markdown_ret, relayVars, clientVars, publishVars, uploadVars, keyVars, dialogVars, credVars, uiVars, storeVars, fileVars>>

\* A post as Storage loads it at start.
PostInit ==
    /\ now = 0
    /\ \E summary \in {None, Some(SummaryText)} :
          post = [BlogPostDefault(1, 0) EXCEPT !.summary = summary]
    /\ markdown_ret = None
    /\ parse_ret = None

EditNext ==
    \/ Tick
    \/ \E id \in PostIds : NewPost(id)
    \/ \E title \in TitleInputs : WithTitle(title)
    \/ \E content \in ContentInputs : WithContent(content)
    \/ \E tag \in TagInputs : AddTag(tag)
    \/ \E tag \in TagInputs : RemoveTag(tag)
    \/ SetImage(ImageUrl)
    \/ SetPublished(EventIdHex, <<UrlCustom>>)
    \/ SetFailed

PostNext ==
    \/ EditNext
    \/ ToMarkdown
    \/ \E fresh \in PostIds : FromMarkdown(fresh)

-----------------------------------------------------------------------------
(* NostrClient (src/src/nostr_client.rs) *)

HexDigits ==
    {"0","1","2","3","4","5","6","7","8","9","a","b","c","d","e","f",
     "A","B","C","D","E","F"}

\* The length of a secret key in hexadecimal digits (32 bytes).
SecretKeyHexLen == 64

\* char::to_ascii_lowercase
ToLower(c) == IF Ascii[c] >= 65 /\ Ascii[c] <= 90 THEN AsciiTable[Ascii[c] + 1] ELSE c

\* The secret key 1 as hexadecimal text, as NIP-19 text, and its public key.
KeyOneHex ==
    <<"0","0","0","0","0","0","0","0","0","0","0","0","0","0","0","0",
      "0","0","0","0","0","0","0","0","0","0","0","0","0","0","0","0",
      "0","0","0","0","0","0","0","0","0","0","0","0","0","0","0","0",
      "0","0","0","0","0","0","0","0","0","0","0","0","0","0","0","1">>
KeyOneNsec ==
    <<"n","s","e","c","1","q","q","q","q","q","q","q","q","q","q","q",
      "q","q","q","q","q","q","q","q","q","q","q","q","q","q","q","q",
      "q","q","q","q","q","q","q","q","q","q","q","q","q","q","q","q",
      "q","q","q","q","q","q","q","q","s","m","h","l","t","g","l">>
KeyOnePublic ==
    <<"7","9","b","e","6","6","7","e","f","9","d","c","b","b","a","c",
      "5","5","a","0","6","2","9","5","c","e","8","7","0","b","0","7",
      "0","2","9","b","f","c","d","b","2","d","c","e","2","8","d","9",
      "5","9","f","2","8","1","5","b","1","6","f","8","1","7","9","8">>
NsecPrefix == <<"n","s","e","c">>

\* SecretKey::from_hex: 64 hexadecimal digits that are not all zero; the key
\* is held as its lower-case hexadecimal text.
from_hex(text) ==
    IF /\ Len(text) = SecretKeyHexLen
       /\ \A i \in 1..Len(text) : text[i] \in HexDigits
       /\ \E i \in 1..Len(text) : text[i] # "0"
    THEN Some([i \in 1..Len(text) |-> ToLower(text[i])])
    ELSE None

\* The bech32 alphabet: the character of each 5-bit value, from 0 to 31.
Bech32Charset ==
    <<"q","p","z","r","y","9","x","8","g","f","2","t","v","d","w","0",
      "s","3","j","n","5","4","k","h","c","e","6","m","u","a","7","l">>

Bech32Value(c) == CHOOSE v \in 0..31 : Bech32Charset[v + 1] = c

\* The exclusive or of two naturals.
RECURSIVE Xor(_, _)
Xor(a, b) ==
    IF a = 0 THEN b
    ELSE IF b = 0 THEN a
    ELSE ((a + b) % 2) + 2 * Xor(a \div 2, b \div 2)

\* The generator of the bech32 checksum.
Bech32Generator == <<996825010, 642813549, 513874426, 1027748829, 705979059>>

\* One round of the checksum: the generators of the set bits of top, from
\* bit i on, mixed into chk.
RECURSIVE Bech32Mix(_, _, _)
Bech32Mix(chk, top, i) ==
    IF i > 5 THEN chk
    ELSE Bech32Mix(IF (top \div 2^(i - 1)) % 2 = 1 THEN Xor(chk, Bech32Generator[i]) ELSE chk,
                   top, i + 1)

\* The checksum of the 5-bit values lo to hi of a sequence, from the running
\* value chk: the first half of the rounds is worked out, then the second.
RECURSIVE Bech32Rounds(_, _, _, _)
Bech32Rounds(chk, values, lo, hi) ==
    IF lo > hi THEN chk
    ELSE IF lo = hi
        THEN Bech32Mix(Xor((chk % 33554432) * 32, values[lo]), chk \div 33554432, 1)
    ELSE LET mid  == (lo + hi) \div 2
             half == Bech32Rounds(chk, values, lo, mid)
         IN  IF half >= 0 THEN Bech32Rounds(half, values, mid + 1, hi) ELSE 0

Bech32Polymod(values) == Bech32Rounds(1, values, 1, Len(values))

\* The human-readable part as the checksum takes it.
Bech32HrpExpand(hrp) ==
    [i \in 1..Len(hrp) |-> Ascii[hrp[i]] \div 32] \o <<0>> \o [i \in 1..Len(hrp) |-> Ascii[hrp[i]] % 32]

\* bech32::decode: Some(the human-readable part and the 5-bit values without
\* the six of the checksum) when the text is lower-case bech32 with a valid
\* checksum, else None.
Bech32Decode(text) ==
    LET sep == LastIndex(text, "1")
        hrp == Slice(text, 0, sep - 1)
        rest == SliceFrom(text, sep)
    IN  IF sep < 2 \/ Len(rest) < 6
           \/ \E i \in 1..Len(rest) : \A v \in 1..32 : Bech32Charset[v] # rest[i]
        THEN None
        ELSE LET values == [i \in 1..Len(rest) |-> Bech32Value(rest[i])]
             IN  IF Bech32Polymod(Bech32HrpExpand(hrp) \o values) # 1
                     THEN None
                     ELSE Some([hrp |-> hrp, data |-> SubSeq(values, 1, Len(values) - 6)])

\* The bit j, counted from 0 at the most significant end, of a sequence of
\* 5-bit values.
Base32Bit(values, j) == (values[(j \div 5) + 1] \div 2^(4 - (j % 5))) % 2

\* Vec<u8>::from_base32: the bytes of the 5-bit values; None when more than
\* four bits are left over or a left-over bit is set.
FromBase32(values) ==
    LET bits == 5 * Len(values)
    IN  IF bits % 8 > 4 \/ \E j \in (bits - (bits % 8))..(bits - 1) : Base32Bit(values, j) = 1
            THEN None
            ELSE Some([k \in 1..(bits \div 8) |->
                         Base32Bit(values, 8 * (k - 1)) * 128
                         + Base32Bit(values, 8 * (k - 1) + 1) * 64
                         + Base32Bit(values, 8 * (k - 1) + 2) * 32
                         + Base32Bit(values, 8 * (k - 1) + 3) * 16
                         + Base32Bit(values, 8 * (k - 1) + 4) * 8
                         + Base32Bit(values, 8 * (k - 1) + 5) * 4
                         + Base32Bit(values, 8 * (k - 1) + 6) * 2
                         + Base32Bit(values, 8 * (k - 1) + 7)])

HexLower == <<"0","1","2","3","4","5","6","7","8","9","a","b","c","d","e","f">>

\* The lower-case hexadecimal text of a sequence of bytes.
HexOfBytes(bytes) ==
    [i \in 1..(2 * Len(bytes)) |->
        IF i % 2 = 1 THEN HexLower[(bytes[(i + 1) \div 2] \div 16) + 1]
                     ELSE HexLower[(bytes[i \div 2] % 16) + 1]]

from_bech32_values_as_bytes(text) ==
    LET decoded == Bech32Decode(text)
    IN  IF decoded = None \/ decoded[1].hrp # NsecPrefix
            THEN None
            ELSE Some(HexOfBytes(SubSeq(decoded[1].data, 1, SecretKeyHexLen \div 2)))

\* SecretKey::from_bech32: the text is bech32 with the prefix nsec and holds
\* 32 bytes that are not all zero; the key is held as from_hex holds it.
from_bech32(text) ==
    LET decoded == Bech32Decode(text)
    IN  IF decoded = None \/ decoded[1].hrp # NsecPrefix
            THEN None
            ELSE LET bytes == FromBase32(decoded[1].data)
                 IN  IF \/ bytes = None
                        \/ 2 * Len(bytes[1]) # SecretKeyHexLen
                        \/ \A i \in 1..Len(bytes[1]) : bytes[1][i] = 0
                     THEN None
                     ELSE Some(HexOfBytes(bytes[1]))

\* Keys::generate(): a fresh random key pair nobody configured.
GeneratedKeys == [secret |-> <<"r","a","n","d","o","m">>]

\* Keys::new(secret_key)
Keys(secret_key) == [secret |-> secret_key]

\* NostrCredentials::new(private_key, public_key)
NostrCredentials(private_key, public_key) ==
    [private_key |-> private_key, public_key |-> public_key]

CredHex  == NostrCredentials(KeyOneHex, KeyOnePublic)
CredNsec == NostrCredentials(KeyOneNsec, KeyOnePublic)
CredBad  == NostrCredentials(NsecPrefix, KeyOnePublic)

\* The NostrClient behind the shared Arc<Mutex<..>>.
ClientSelf == [credentials |-> credentials, signer |-> signer, pool |-> pool]

\* More keys: the secret key 2, and the key of the NIP-19 examples, each as
\* hexadecimal text, as NIP-19 text, and its public key.
KeyTwoHex ==
    <<"0","0","0","0","0","0","0","0","0","0","0","0","0","0","0","0",
      "0","0","0","0","0","0","0","0","0","0","0","0","0","0","0","0",
      "0","0","0","0","0","0","0","0","0","0","0","0","0","0","0","0",
      "0","0","0","0","0","0","0","0","0","0","0","0","0","0","0","2">>
KeyTwoNsec ==
    <<"n","s","e","c","1","q","q","q","q","q","q","q","q","q","q","q",
      "q","q","q","q","q","q","q","q","q","q","q","q","q","q","q","q",
      "q","q","q","q","q","q","q","q","q","q","q","q","q","q","q","q",
      "q","q","q","q","q","q","q","p","q","p","t","c","f","k","2">>
KeyTwoPublic ==
    <<"c","6","0","4","7","f","9","4","4","1","e","d","7","d","6","d",
      "3","0","4","5","4","0","6","e","9","5","c","0","7","c","d","8",
      "5","c","7","7","8","e","4","b","8","c","e","f","3","c","a","7",
      "a","b","a","c","0","9","b","9","5","c","7","0","9","e","e","5">>
KeyVecHex ==
    <<"6","7","d","e","a","2","e","d","0","1","8","0","7","2","d","6",
      "7","5","f","5","4","1","5","e","c","f","a","e","d","7","d","2",
      "5","9","7","5","5","5","e","2","0","2","d","8","5","b","3","d",
      "6","5","e","a","4","e","5","8","d","2","d","9","2","f","f","a">>
KeyVecHexUpper ==
    <<"6","7","D","E","A","2","E","D","0","1","8","0","7","2","D","6",
      "7","5","F","5","4","1","5","E","C","F","A","E","D","7","D","2",
      "5","9","7","5","5","5","E","2","0","2","D","8","5","B","3","D",
      "6","5","E","A","4","E","5","8","D","2","D","9","2","F","F","A">>
KeyVecNsec ==
    <<"n","s","e","c","1","v","l","0","2","9","m","g","p","s","p","e",
      "d","v","a","0","4","g","9","0","v","l","t","k","h","6","f","v",
      "h","2","4","0","z","q","t","v","9","k","0","t","9","a","f","8",
      "9","3","5","k","e","9","l","a","q","s","n","l","f","e","5">>
KeyVecPublic ==
    <<"7","e","7","e","9","c","4","2","a","9","1","b","f","e","f","1",
      "9","f","a","9","2","9","e","5","f","d","a","1","b","7","2","e",
      "0","e","b","c","1","a","4","c","1","1","4","1","6","7","3","e",
      "2","7","9","4","2","3","4","d","8","6","a","d","d","f","4","e">>
\* Texts that are no private key: an nsec text whose last character is
\* wrong, the npub text of a public key, 64 zeros, a text too short.
KeyBadChecksum ==
    <<"n","s","e","c","1","v","l","0","2","9","m","g","p","s","p","e",
      "d","v","a","0","4","g","9","0","v","l","t","k","h","6","f","v",
      "h","2","4","0","z","q","t","v","9","k","0","t","9","a","f","8",
      "9","3","5","k","e","9","l","a","q","s","n","l","f","e","q">>
KeyNpub ==
    <<"n","p","u","b","1","0","e","l","f","c","s","4","f","r","0","l",
      "0","r","8","a","f","9","8","j","l","m","g","d","h","9","c","8",
      "t","c","x","j","v","z","9","q","k","w","0","3","8","j","s","3",
      "5","m","p","4","d","m","a","8","q","z","v","j","p","t","g">>
KeyZeroHex ==
    <<"0","0","0","0","0","0","0","0","0","0","0","0","0","0","0","0",
      "0","0","0","0","0","0","0","0","0","0","0","0","0","0","0","0",
      "0","0","0","0","0","0","0","0","0","0","0","0","0","0","0","0",
      "0","0","0","0","0","0","0","0","0","0","0","0","0","0","0","0">>
KeyShortHex == <<"a","b","c","1","2","3">>

\* The credentials the credentials dialog and the credential store hand to
\* set_credentials: two readable keys, an nsec text and a hexadecimal text
\* that do not read.
CredShort  == NostrCredentials(KeyShortHex, KeyOnePublic)
CredInputs == {CredHex, CredNsec, CredBad, CredShort}

\* Keys::public_key and to_hex, as the table of the keys the model uses.
public_key(keys) ==
    IF keys.secret = KeyOneHex THEN KeyOnePublic
    ELSE IF keys.secret = KeyTwoHex THEN KeyTwoPublic
    ELSE IF keys.secret = KeyVecHex THEN KeyVecPublic
    ELSE <<>>

\* The start of set_credentials, get_public_key_from_private,
\* validate_private_key and import_credentials_from_private_key alike: the
\* text is read as NIP-19 when it starts with nsec, else as hexadecimal.
secret_key_of(private_key) ==
    IF StartsWith(private_key, NsecPrefix)
        THEN from_bech32(private_key)
        ELSE from_hex(private_key)

\* NostrClient::get_public_key_from_private
get_public_key_from_private(private_key) ==
    LET secret_key == secret_key_of(private_key)
    IN  IF secret_key = None
            THEN Err(IF StartsWith(private_key, NsecPrefix)
                         THEN "Invalid nsec format"
                         ELSE "Invalid private key format")
            ELSE Ok(public_key(Keys(secret_key[1])))

\* NostrClient::validate_private_key
validate_private_key(private_key) == secret_key_of(private_key) # None

\* The private-key texts the credentials dialog is given.
KeyInputs ==
    {KeyOneHex, KeyOneNsec, KeyTwoHex, KeyTwoNsec, KeyVecHex, KeyVecHexUpper, KeyVecNsec,
     KeyBadChecksum, KeyNpub, KeyZeroHex, KeyShortHex, NsecPrefix}

\* What the two functions return for each of these texts, worked out once.
PublicKeyOfInput == [private_key \in KeyInputs |-> get_public_key_from_private(private_key)]
ValidityOfInput  == [private_key \in KeyInputs |-> validate_private_key(private_key)]

\* The log of calls keeps the last two.
LastTwo(calls) == IF Len(calls) > 2 THEN SubSeq(calls, Len(calls) - 1, Len(calls)) ELSE calls

\* The credentials dialog asks for the public key of the text typed.
GetPublicKeyFromPrivate(private_key) ==
    /\ key_calls' = LastTwo(Append(key_calls,
                        [op |-> "get_public_key_from_private", private_key |-> private_key,
                         ret |-> PublicKeyOfInput[private_key]]))
    /\ UNCHANGED <<relayVars, postVars, clientVars, publishVars, uploadVars, dialogVars, credVars, uiVars, storeVars, fileVars>>

\* The credentials dialog checks the text typed.
ValidatePrivateKey(private_key) ==
    /\ key_calls' = LastTwo(Append(key_calls,
                        [op |-> "validate_private_key", private_key |-> private_key,
                         ret |-> ValidityOfInput[private_key]]))
    /\ UNCHANGED <<relayVars, postVars, clientVars, publishVars, uploadVars, dialogVars, credVars, uiVars, storeVars, fileVars>>

KeyInit == key_calls = <<>>

KeyNext ==
    \/ \E private_key \in KeyInputs : GetPublicKeyFromPrivate(private_key)
    \/ \E private_key \in KeyInputs : ValidatePrivateKey(private_key)

\* NostrClient::new
NostrClientNew == [credentials |-> None, signer |-> GeneratedKeys, pool |-> {}]

ErrInvalidNsec == "Invalid nsec format"
ErrInvalidKey  == "Invalid private key format"

set_credentials_assign_first(self, creds) ==
    LET secret_key == IF StartsWith(creds.private_key, NsecPrefix)
                          THEN from_bech32(creds.private_key)
                          ELSE from_hex(creds.private_key)
    IN  IF secret_key = None
            THEN [ret         |-> IF StartsWith(creds.private_key, NsecPrefix)
                                      THEN Err(ErrInvalidNsec) ELSE Err(ErrInvalidKey),
                  credentials |-> Some(creds),
                  signer      |-> self.signer,
                  pool        |-> self.pool]
            ELSE [ret         |-> Ok(<<>>),
                  credentials |-> Some(creds),
                  signer      |-> Keys(secret_key[1]),
                  pool        |-> {}]

\* NostrClient::set_credentials: what it returns and the client after the
\* call; an unreadable key returns Err before anything is assigned.
set_credentials(self, creds) ==
    LET secret_key == IF StartsWith(creds.private_key, NsecPrefix)
                          THEN from_bech32(creds.private_key)
                          ELSE from_hex(creds.private_key)
    IN  IF secret_key = None
            THEN [ret         |-> IF StartsWith(creds.private_key, NsecPrefix)
                                      THEN Err(ErrInvalidNsec) ELSE Err(ErrInvalidKey),
                  credentials |-> self.credentials,
                  signer      |-> self.signer,
                  pool        |-> self.pool]
            ELSE [ret         |-> Ok(<<>>),
                  credentials |-> Some(creds),
                  signer      |-> Keys(secret_key[1]),
                  pool        |-> {}]

\* App::new and the credentials dialog: try_lock, then set_credentials.
SetCredentials(creds) ==
    /\ lock = "free"
    /\ LET after == set_credentials(ClientSelf, creds)
       IN  /\ credentials' = after.credentials
           /\ signer' = after.signer
           /\ pool' = after.pool
           /\ cred_call' = Some([creds |-> creds, before |-> ClientSelf, ret |-> after.ret])
    /\ UNCHANGED <<lock, relayVars, postVars, publishVars, uploadVars, keyVars, dialogVars, uiVars, storeVars, fileVars>>

CredInit == cred_call = None

ClientInit ==
    /\ credentials = NostrClientNew.credentials
    /\ signer = NostrClientNew.signer
    /\ pool = NostrClientNew.pool
    /\ lock = "free"

-----------------------------------------------------------------------------
(* NostrClient::publish_long_form_post and connect_to_relays *)

\* Url::parse as add_relay applies it to a relay address: a ws or wss scheme
\* and a host; an address without a path gets the path "/".
UrlParse(text) ==
    LET scheme == IF StartsWith(text, WssScheme) THEN WssScheme
                  ELSE IF StartsWith(text, WsScheme) THEN WsScheme
                  ELSE <<>>
        rest   == SliceFrom(text, Len(scheme))
    IN  IF scheme = <<>> \/ rest = <<>> \/ rest[1] = "/"
            THEN None
            ELSE Some(IF Find(rest, <<"/">>) = None THEN text \o <<"/">> ELSE text)

\* Url::to_string: the text of a parsed address.
UrlToString(url) == url

\* Every order a HashSet of these elements can be iterated in.
Orderings(set) ==
    {seq \in [1..Cardinality(set) -> set] : \A i, j \in 1..Cardinality(set) :
                                                seq[i] = seq[j] => i = j}

\* The Unix time of the instant 0 of the model, 2024-01-01T00:00:00Z.
UnixEpochOfTimeZero == 1704067200

\* DateTime<Utc>::timestamp
timestamp(t) == UnixEpochOfTimeZero + t

\* i64::to_string
RECURSIVE to_string(_)
to_string(n) == IF n < 10 THEN <<Digit(n)>> ELSE to_string(n \div 10) \o <<Digit(n % 10)>>

\* Uuid's Display is UuidStr; `format!("blogster-{}", post.id)`.
IdentifierPrefix == <<"b","l","o","g","s","t","e","r","-">>
identifier(p) == IdentifierPrefix \o UuidStr(p.id)

\* Kind::ParameterizedReplaceable(30023)
LongFormKind == 30023

\* A tag: its kind and its one value.
Tag(kind, value) == [kind |-> kind, value |-> value]

TagOption(kind, option) == IF option = None THEN <<>> ELSE <<Tag(kind, option[1])>>

long_form_tags_reversed_hashtags(p) ==
    <<Tag("title", p.title)>>
    \o TagOption("summary", p.summary)
    \o [i \in 1..Len(p.tags) |-> Tag("t", p.tags[Len(p.tags) + 1 - i])]
    \o TagOption("image", p.image_url)
    \o <<Tag("published_at", to_string(timestamp(p.created_at)))>>
    \o <<Tag("d", identifier(p))>>

long_form_tags_title_identifier(p) ==
    <<Tag("title", p.title)>>
    \o TagOption("summary", p.summary)
    \o [i \in 1..Len(p.tags) |-> Tag("t", p.tags[i])]
    \o TagOption("image", p.image_url)
    \o <<Tag("published_at", to_string(timestamp(p.created_at)))>>
    \o <<Tag("d", IdentifierPrefix \o p.title)>>

\* The tags publish_long_form_post builds: title, summary if any, one hashtag
\* per tag of the post in order, image if any, published_at, identifier.
long_form_tags(p) ==
    <<Tag("title", p.title)>>
    \o TagOption("summary", p.summary)
    \o [i \in 1..Len(p.tags) |-> Tag("t", p.tags[i])]
    \o TagOption("image", p.image_url)
    \o <<Tag("published_at", to_string(timestamp(p.created_at)))>>
    \o <<Tag("d", identifier(p))>>

ErrNoCredentials == "No Nostr credentials configured"
ErrNotReady      == "Post is not ready to publish (missing title or content)"
ErrSendEvent     == "Failed to publish event"
ErrNoRelay       == "Failed to publish to any relay"

\* What decides the first lines of publish_long_form_post: Some(the error it
\* returns at once) or None.
publish_precheck(self, p) ==
    IF self.credentials = None THEN Some(Err(ErrNoCredentials))
    ELSE IF ~is_ready_to_publish(p) THEN Some(Err(ErrNotReady))
    ELSE None

\* Client::sign_event_builder with the client's Keys: id and signature are
\* functions of the content, so the signed event is modelled by its content.
sign_event_builder(self, kind, content, tags) ==
    [kind |-> kind, content |-> content, tags |-> tags, pubkey |-> self.signer.secret]

publish_result_with_empty_list(event, output) ==
    IF ~output.ok THEN Err(ErrSendEvent)
    ELSE Ok([event_id |-> event,
             relays   |-> [i \in 1..Len(output.value) |-> UrlToString(output.value[i])]])

\* What publish_long_form_post returns from the outcome of send_event: output
\* is Err or Ok(the accepting relays in the iteration order of the set).
publish_result(event, output) ==
    IF ~output.ok THEN Err(ErrSendEvent)
    ELSE LET successful_relays ==
                 [i \in 1..Len(output.value) |-> UrlToString(output.value[i])]
         IN  IF successful_relays = <<>>
                 THEN Err(ErrNoRelay)
                 ELSE Ok([event_id |-> event, relays |-> successful_relays])

\* The publish task takes the client's lock and calls publish_long_form_post
\* with the current post and relay settings; the call runs up to its first
\* suspension point.
PublishStart ==
    /\ pub_pc = "idle"
    /\ lock = "free"
    /\ lock' = "publish"
    /\ pub_post' = Some(post)
    /\ pub_settings' = Some(RelaySelf)
    /\ LET early == publish_precheck(ClientSelf, post)
       IN  IF early # None
               THEN /\ pub_ret' = early
                    /\ pub_pc' = "done"
                    /\ event_tags' = None
               ELSE /\ pub_ret' = None
                    /\ pub_pc' = "connecting"
                    /\ event_tags' = Some(long_form_tags(post))
    /\ UNCHANGED <<credentials, signer, pool, relay_up, signed_event, relay_acks,
                   pub_effects, last_built, relayVars, postVars, uploadVars, keyVars, dialogVars, credVars, uiVars, storeVars, fileVars>>

\* The loop of connect_to_relays over Client::add_relay: an address that
\* does not parse is logged and left out, a relay the pool holds is not added
\* again; gives the pool and the relays newly added, which connect() dials.
RECURSIVE add_relays(_, _)
add_relays(client_pool, relays) ==
    IF relays = <<>> THEN [pool |-> client_pool, added |-> <<>>]
    ELSE LET url == UrlParse(Head(relays))
         IN  IF url = None \/ url[1] \in client_pool
                 THEN add_relays(client_pool, Tail(relays))
                 ELSE LET rest == add_relays(client_pool \cup {url[1]}, Tail(relays))
                      IN  [pool |-> rest.pool, added |-> <<url[1]>> \o rest.added]

\* connect_to_relays: add every active relay, then connect().
PublishConnect ==
    /\ pub_pc = "connecting"
    /\ pool' = add_relays(pool, get_active_relays(pub_settings[1])).pool
    /\ pub_effects' = Append(pub_effects, "connect")
    /\ pub_pc' = "settling"
    /\ UNCHANGED <<credentials, signer, lock, pub_post, pub_settings, event_tags,
                   relay_up, signed_event, relay_acks, pub_ret, last_built,
                   relayVars, postVars, uploadVars, keyVars, dialogVars, credVars, uiVars, storeVars, fileVars>>

\* connect_to_relays: the two seconds of sleep, after which any part of the
\* pool is connected.
PublishSettle ==
    /\ pub_pc = "settling"
    /\ \E up \in SUBSET pool : relay_up' = up
    /\ pub_effects' = Append(pub_effects, "settled")
    /\ pub_pc' = "signing"
    /\ UNCHANGED <<clientVars, pub_post, pub_settings, event_tags, signed_event,
                   relay_acks, pub_ret, last_built, relayVars, postVars, uploadVars, keyVars, dialogVars, credVars, uiVars, storeVars, fileVars>>

\* EventBuilder::new and sign_event_builder, taken before the sleep is over.
PublishSignBeforeSettled ==
    /\ pub_pc = "settling"
    /\ signed_event' = Some(sign_event_builder(ClientSelf, LongFormKind,
                                               pub_post[1].content, event_tags[1]))
    /\ pub_effects' = Append(pub_effects, "sign")
    /\ pub_pc' = "sending"
    /\ UNCHANGED <<clientVars, pub_post, pub_settings, event_tags, relay_up,
                   relay_acks, pub_ret, last_built, relayVars, postVars, uploadVars, keyVars, dialogVars, credVars, uiVars, storeVars, fileVars>>

\* EventBuilder::new and sign_event_builder.
PublishSign ==
    /\ pub_pc = "signing"
    /\ signed_event' = Some(sign_event_builder(ClientSelf, LongFormKind,
                                               pub_post[1].content, event_tags[1]))
    /\ pub_effects' = Append(pub_effects, "sign")
    /\ pub_pc' = "sending"
    /\ UNCHANGED <<clientVars, pub_post, pub_settings, event_tags, relay_up,
                   relay_acks, pub_ret, last_built, relayVars, postVars, uploadVars, keyVars, dialogVars, credVars, uiVars, storeVars, fileVars>>

\* send_event and the rest of publish_long_form_post: any part of the
\* connected relays accepts; with no accepting relay send_event returns
\* either Err or an output whose success set is empty.
PublishSend ==
    /\ pub_pc = "sending"
    /\ \E acks \in SUBSET relay_up :
          /\ relay_acks' = acks
          /\ \E output \in {Ok(order) : order \in Orderings(acks)}
                              \cup (IF acks = {} THEN {Err(ErrSendEvent)} ELSE {}) :
                pub_ret' = Some(publish_result(signed_event[1], output))
    /\ pub_effects' = Append(pub_effects, "send")
    /\ pub_pc' = "done"
    /\ UNCHANGED <<clientVars, pub_post, pub_settings, event_tags, relay_up,
                   signed_event, last_built, relayVars, postVars, uploadVars, keyVars, dialogVars, credVars, uiVars, storeVars, fileVars>>

\* The summary of a built event that stays after the call.
Built(p, tags) == [id |-> p.id, title |-> p.title, tags |-> SelectSeq(tags, LAMBDA t : t.kind = "d")]

\* The call returns to the publish task, which logs the result and drops the
\* lock guard.
PublishReturn ==
    /\ pub_pc = "done"
    /\ lock' = "free"
    /\ last_built' = IF event_tags = None THEN last_built
                     ELSE Some(Built(pub_post[1], event_tags[1]))
    /\ pub_pc' = "idle"
    /\ pub_post' = None
    /\ pub_settings' = None
    /\ event_tags' = None
    /\ relay_up' = {}
    /\ signed_event' = None
    /\ relay_acks' = {}
    /\ pub_ret' = None
    /\ pub_effects' = <<>>
    /\ UNCHANGED <<credentials, signer, pool, relayVars, postVars, uploadVars, keyVars, dialogVars, credVars, uiVars, storeVars, fileVars>>

PublishInit ==
    /\ pub_pc = "idle"
    /\ pub_post = None
    /\ pub_settings = None
    /\ event_tags = None
    /\ relay_up = {}
    /\ signed_event = None
    /\ relay_acks = {}
    /\ pub_ret = None
    /\ pub_effects = <<>>
    /\ last_built = None

PublishNext ==
    \/ PublishStart
    \/ PublishConnect
    \/ PublishSettle
    \/ PublishSign
    \/ PublishSend
    \/ PublishReturn

-----------------------------------------------------------------------------
(* BlossomClient (src/src/blossom_client.rs) *)

\* The files the file dialog can hand over: a path and what reading it gives.
PathPng     == <<"/","p","/","a",".","P","N","G">>
PathNoExt   == <<"/","p","/","b">>
PathMissing == <<"/","p","/","c",".","g","i","f">>
BytesPng    == <<"P","N","G">>
BytesOther  == <<"X">>
Files ==
    {[path |-> PathPng, content |-> Some(BytesPng)],
     [path |-> PathNoExt, content |-> Some(BytesOther)],
     [path |-> PathMissing, content |-> None]}

\* Sha256 and format!("{:x}"), as the table of the digests of the contents
\* the model uses.
Sha256Hex(bytes) ==
    IF bytes = BytesPng THEN
        <<"7","9","6","1","2","0","8","3","7","6","9","4","d","3","f","3",
          "f","2","9","2","5","9","c","f","e","b","2","5","0","9","1","6",
          "9","8","c","2","a","0","a","a","8","7","8","7","3","6","5","8",
          "d","8","4","0","b","4","9","9","3","e","e","8","8","9","b","3">>
    ELSE IF bytes = BytesOther THEN
        <<"4","b","6","8","a","b","3","8","4","7","f","e","d","a","7","d",
          "6","c","6","2","c","1","f","b","c","b","e","e","b","f","a","3",
          "5","e","a","b","7","3","5","1","e","d","5","e","7","8","f","4",
          "d","d","a","d","e","a","5","d","f","6","4","b","8","0","1","5">>
    ELSE <<>>

\* Path::file_name
file_name(path) == SliceFrom(path, LastIndex(path, "/"))

\* Path::extension, lower-cased: what follows the last dot of the file name,
\* unless the name has no dot or starts with its only dot.
extension(path) ==
    LET name == file_name(path)
        dot  == LastIndex(name, ".")
    IN  IF dot <= 1 THEN None
        ELSE Some([i \in 1..(Len(name) - dot) |-> ToLower(name[dot + i])])

\* The match on the extension in upload_file.
content_type(path) ==
    LET ext == extension(path)
    IN  IF ext = Some(<<"p","n","g">>) THEN "image/png"
        ELSE IF ext = Some(<<"j","p","g">>) \/ ext = Some(<<"j","p","e","g">>) THEN "image/jpeg"
        ELSE IF ext = Some(<<"g","i","f">>) THEN "image/gif"
        ELSE IF ext = Some(<<"w","e","b","p">>) THEN "image/webp"
        ELSE IF ext = Some(<<"s","v","g">>) THEN "image/svg+xml"
        ELSE "application/octet-stream"

\* BlossomSettings::default
ServerUrl == <<"h","t","t","p","s",":","/","/","b","l","o","s","s","o","m",".","b","a","n","d">>
UploadUrl == ServerUrl \o <<"/","u","p","l","o","a","d">>

\* Kind::Custom(24242) and the ten minutes an authorization lasts.
BlossomAuthKind   == 24242
ExpirationSeconds == 600

create_auth_header_without_expiry(nostr_client, file_content, filename, t) ==
    LET content == <<"U","p","l","o","a","d"," ">> \o filename
        tags    == <<Tag("t", <<"u","p","l","o","a","d">>),
                     Tag("x", Sha256Hex(file_content)),
                     Tag("expiration", to_string(timestamp(t)))>>
    IN  IF nostr_client = None
            THEN Err("No Nostr client available for authorization")
            ELSE Ok([scheme |-> "Nostr",
                     event  |-> sign_event_builder(nostr_client[1], BlossomAuthKind,
                                                   content, tags)])

\* create_auth_header: Some(the header) signed by the shared client, or None
\* when the BlossomClient has no client. The header is "Nostr " and the
\* Base64 of the event's JSON, modelled by the event it encodes.
create_auth_header(nostr_client, file_content, filename, t) ==
    LET content == <<"U","p","l","o","a","d"," ">> \o filename
        tags    == <<Tag("t", <<"u","p","l","o","a","d">>),
                     Tag("x", Sha256Hex(file_content)),
                     Tag("expiration", to_string(timestamp(t) + ExpirationSeconds))>>
    IN  IF nostr_client = None
            THEN Err("No Nostr client available for authorization")
            ELSE Ok([scheme |-> "Nostr",
                     event  |-> sign_event_builder(nostr_client[1], BlossomAuthKind,
                                                   content, tags)])

\* The answers of the media host: no answer at all, a refusal, a success
\* whose body is not the expected JSON, a success with the digest of the
\* upload, a success with another digest.
BlobUrl == ServerUrl \o <<"/","b","l","o","b",".","p","n","g">>
Responses(sha256_hex) ==
    {[sent |-> FALSE],
     [sent |-> TRUE, status |-> 401, text |-> "unauthorized", json |-> None],
     [sent |-> TRUE, status |-> 500, text |-> "blob descriptor",
      json |-> Some([url |-> BlobUrl, sha256 |-> sha256_hex])],
     [sent |-> TRUE, status |-> 200, text |-> "ok", json |-> None],
     [sent |-> TRUE, status |-> 200, text |-> "",
      json |-> Some([url |-> BlobUrl, sha256 |-> sha256_hex])],
     [sent |-> TRUE, status |-> 200, text |-> "",
      json |-> Some([url |-> BlobUrl, sha256 |-> Sha256Hex(BytesOther)])]}

\* StatusCode::is_success
is_success(status) == status >= 200 /\ status < 300

upload_result_strict(sha256_hex, response) ==
    IF ~response.sent THEN [ret |-> Err("Failed to upload file to Blossom server"), log |-> {}]
    ELSE IF ~is_success(response.status)
        THEN [ret |-> Err(<<"Blossom upload failed with status", response.status, response.text>>),
              log |-> {}]
    ELSE IF response.json = None
        THEN [ret |-> Err("Failed to parse Blossom upload response"), log |-> {}]
    ELSE IF response.json[1].sha256 # sha256_hex
        THEN [ret |-> Err("SHA256 mismatch"), log |-> {"info: uploaded"}]
    ELSE [ret |-> Ok(response.json[1].url), log |-> {"info: uploaded"}]

upload_result_parse_first(sha256_hex, response) ==
    IF ~response.sent THEN [ret |-> Err("Failed to upload file to Blossom server"), log |-> {}]
    ELSE IF response.json # None
        THEN [ret |-> Ok(response.json[1].url), log |-> {"info: uploaded"}]
    ELSE IF ~is_success(response.status)
        THEN [ret |-> Err(<<"Blossom upload failed with status", response.status, response.text>>),
              log |-> {}]
    ELSE [ret |-> Err("Failed to parse Blossom upload response"), log |-> {}]

\* upload_file from the answer to its PUT on: what it returns and what it
\* logs.
upload_result(sha256_hex, response) ==
    IF ~response.sent THEN [ret |-> Err("Failed to upload file to Blossom server"), log |-> {}]
    ELSE IF ~is_success(response.status)
        THEN [ret |-> Err(<<"Blossom upload failed with status", response.status, response.text>>),
              log |-> {}]
    ELSE IF response.json = None
        THEN [ret |-> Err("Failed to parse Blossom upload response"), log |-> {}]
    ELSE [ret |-> Ok(response.json[1].url),
          log |-> {"info: uploaded"} \cup
                  (IF response.json[1].sha256 # sha256_hex
                       THEN {"warn: SHA256 mismatch"} ELSE {})]

\* upload_featured_image picks a file and calls upload_file, which reads the
\* file and hashes it.
UploadStart(file) ==
    /\ up_pc = "idle"
    /\ up_file' = Some(file)
    /\ IF file.content = None
           THEN /\ up_ret' = Some(Err("Failed to read file"))
                /\ up_hash' = None
                /\ up_pc' = "done"
           ELSE /\ up_ret' = None
                /\ up_hash' = Some(Sha256Hex(file.content[1]))
                /\ up_pc' = "auth"
    /\ UNCHANGED <<up_auth, http_requests, up_resp, up_log,
                   relayVars, postVars, clientVars, publishVars, keyVars, dialogVars, credVars, uiVars, storeVars, fileVars>>

\* create_auth_header: wait for the client's lock, sign under it, drop it.
UploadAuth ==
    /\ up_pc = "auth"
    /\ lock = "free"
    /\ LET header == create_auth_header(Some(ClientSelf), up_file[1].content[1],
                                        file_name(up_file[1].path), now)
       IN  IF header.ok
               THEN /\ up_auth' = Some(header.value)
                    /\ up_pc' = "put"
                    /\ up_ret' = None
               ELSE /\ up_auth' = None
                    /\ up_pc' = "done"
                    /\ up_ret' = Some(Err("Failed to create authorization header"))
    /\ UNCHANGED <<up_file, up_hash, http_requests, up_resp, up_log,
                   relayVars, postVars, clientVars, publishVars, keyVars, dialogVars, credVars, uiVars, storeVars, fileVars>>

\* The PUT of the file to the media host.
UploadPut ==
    /\ up_pc = "put"
    /\ http_requests' = Append(http_requests,
                               [method |-> "PUT", url |-> UploadUrl,
                                authorization |-> up_auth[1],
                                content_type |-> content_type(up_file[1].path),
                                content_length |-> Len(up_file[1].content[1]),
                                body |-> up_file[1].content[1]])
    /\ up_pc' = "response"
    /\ UNCHANGED <<up_file, up_hash, up_auth, up_resp, up_ret, up_log,
                   relayVars, postVars, clientVars, publishVars, keyVars, dialogVars, credVars, uiVars, storeVars, fileVars>>

\* The answer to the PUT and the rest of upload_file.
UploadResponse ==
    /\ up_pc = "response"
    /\ \E response \in Responses(up_hash[1]) :
          /\ up_resp' = Some(response)
          /\ up_ret' = Some(upload_result(up_hash[1], response).ret)
          /\ up_log' = upload_result(up_hash[1], response).log
    /\ up_pc' = "done"
    /\ UNCHANGED <<up_file, up_hash, up_auth, http_requests,
                   relayVars, postVars, clientVars, publishVars, keyVars, dialogVars, credVars, uiVars, storeVars, fileVars>>

\* upload_featured_image with what upload_file returned: the URL of the blob,
\* or the local path, becomes the image of the post.
UploadReturn ==
    /\ up_pc = "done"
    /\ post' = [post EXCEPT
                  !.image_url = Some(IF up_ret[1].ok THEN up_ret[1].value
                                     ELSE <<"f","i","l","e",":","/","/">> \o up_file[1].path),
                  !.updated_at = now]
    /\ markdown_ret' = None
    /\ parse_ret' = None
    /\ up_pc' = "idle"
    /\ up_file' = None
    /\ up_hash' = None
    /\ up_auth' = None
    /\ http_requests' = <<>>
    /\ up_resp' = None
    /\ up_ret' = None
    /\ up_log' = {}
    /\ UNCHANGED <<now, relayVars, clientVars, publishVars, keyVars, dialogVars, credVars, uiVars, storeVars, fileVars>>

UploadInit ==
    /\ up_pc = "idle"
    /\ up_file = None
    /\ up_hash = None
    /\ up_auth = None
    /\ http_requests = <<>>
    /\ up_resp = None
    /\ up_ret = None
    /\ up_log = {}

UploadNext ==
    \/ \E file \in Files : UploadStart(file)
    \/ UploadAuth
    \/ UploadPut
    \/ UploadResponse
    \/ UploadReturn

-----------------------------------------------------------------------------
(* PublishDialog (src/src/components/publish_dialog.rs) and the task it spawns *)

\* PublishDialog::default
PublishDialogDefault ==
    [open |-> FALSE, post |-> None, is_publishing |-> FALSE,
     error_message |-> None, progress_message |-> None]

ErrDialogNoCredentials ==
    "No Nostr credentials configured. Please set up your credentials first."
ProgressConnecting == "Connecting to relays..."

\* What the user does in one frame of the dialog.
Clicks == {"none", "publish", "cancel"}

\* PublishDialog::open
open(self, p) ==
    [self EXCEPT !.open = TRUE, !.post = Some(p), !.is_publishing = FALSE,
                 !.error_message = None, !.progress_message = None]

\* The Publish entry of the sidebar's context menu is there for a draft, the
\* Publish button of the editor for a post that is ready to publish; both end
\* in PublishDialog::open with a clone of the post.
DialogOpen ==
    /\ post.status = StatusDraft \/ is_ready_to_publish(post)
    /\ dialog' = open(dialog, post)
    /\ UNCHANGED <<show_ret, task_pc, task_post, task_ret, relayVars, postVars,
                   clientVars, publishVars, uploadVars, keyVars, credVars, uiVars, storeVars, fileVars>>

\* The credentials check of the Publish button: try_lock on the shared
\* client, false when the lock is taken.
dialog_has_credentials == lock = "free" /\ credentials # None

\* One frame: PublishDialog::show with what the user clicks, start_publishing
\* when it is called, and what App::update does with the value returned.
\* The buttons are drawn while the dialog holds a post and is not publishing.
DialogShow(click) ==
    /\ dialog.open
    /\ click # "none" => dialog.post # None /\ ~dialog.is_publishing
    /\ LET published_post == None
           should_start_publishing == click = "publish" /\ dialog_has_credentials
           clicked ==
               IF click = "publish" /\ ~dialog_has_credentials
                   THEN [dialog EXCEPT !.error_message = Some(ErrDialogNoCredentials)]
                   ELSE dialog
           started ==
               IF should_start_publishing /\ clicked.post # None
                   THEN [clicked EXCEPT !.post = None, !.is_publishing = TRUE,
                                        !.progress_message = Some(ProgressConnecting)]
                   ELSE clicked
           closed ==
               IF click = "cancel"
                   THEN [started EXCEPT !.open = FALSE, !.post = None,
                                        !.is_publishing = FALSE, !.error_message = None,
                                        !.progress_message = None]
                   ELSE started
       IN  /\ dialog' = closed
           /\ IF should_start_publishing /\ clicked.post # None
                  THEN /\ task_pc' = "spawned"
                       /\ task_post' = clicked.post
                       /\ task_ret' = None
                  ELSE UNCHANGED <<task_pc, task_post, task_ret, credVars, uiVars, storeVars, fileVars>>
           /\ show_ret' = published_post
           /\ IF published_post # None
                  THEN post' = published_post[1]
                  ELSE UNCHANGED post
    /\ UNCHANGED <<now, markdown_ret, parse_ret, relayVars, clientVars, publishVars,
                   uploadVars, keyVars, credVars, uiVars, storeVars, fileVars>>

\* The task: client.lock().await
TaskLock ==
    /\ task_pc = "spawned"
    /\ lock = "free"
    /\ lock' = "publish"
    /\ task_pc' = "connecting"
    /\ UNCHANGED <<credentials, signer, pool, dialog, show_ret, task_post, task_ret,
                   relayVars, postVars, publishVars, uploadVars, keyVars, credVars, uiVars, storeVars, fileVars>>

\* The task: its own connect_to_relays, up to the sleep.
TaskConnect ==
    /\ task_pc = "connecting"
    /\ pool' = add_relays(pool, get_active_relays(RelaySelf)).pool
    /\ pub_effects' = Append(pub_effects, "connect")
    /\ task_pc' = "settling"
    /\ UNCHANGED <<credentials, signer, lock, pub_pc, pub_post, pub_settings, event_tags,
                   relay_up, signed_event, relay_acks, pub_ret, last_built,
                   dialog, show_ret, task_post, task_ret,
                   relayVars, postVars, uploadVars, keyVars, credVars, uiVars, storeVars, fileVars>>

\* The task: the sleep of its own connect_to_relays is over, and it calls
\* publish_long_form_post with its clone of the post; the call runs up to its
\* first suspension point.
TaskPublish ==
    /\ task_pc = "settling"
    /\ \E up \in SUBSET pool : relay_up' = up
    /\ pub_effects' = Append(pub_effects, "settled")
    /\ pub_post' = task_post
    /\ pub_settings' = Some(RelaySelf)
    /\ LET early == publish_precheck(ClientSelf, task_post[1])
       IN  IF early # None
               THEN /\ pub_ret' = early
                    /\ pub_pc' = "done"
                    /\ event_tags' = None
               ELSE /\ pub_ret' = None
                    /\ pub_pc' = "connecting"
                    /\ event_tags' = Some(long_form_tags(task_post[1]))
    /\ task_pc' = "publishing"
    /\ UNCHANGED <<clientVars, signed_event, relay_acks, last_built,
                   dialog, show_ret, task_post, task_ret,
                   relayVars, postVars, uploadVars, keyVars, credVars, uiVars, storeVars, fileVars>>

\* The task: the call has returned, the lock guard is dropped at the end of
\* the block and the result is logged; the post marked published is a local
\* of the task and goes with it.
TaskFinish ==
    /\ task_pc = "publishing"
    /\ pub_pc = "done"
    /\ lock' = "free"
    /\ task_ret' = pub_ret
    /\ task_pc' = "none"
    /\ task_post' = None
    /\ last_built' = IF event_tags = None THEN last_built
                     ELSE Some(Built(pub_post[1], event_tags[1]))
    /\ pub_pc' = "idle"
    /\ pub_post' = None
    /\ pub_settings' = None
    /\ event_tags' = None
    /\ relay_up' = {}
    /\ signed_event' = None
    /\ relay_acks' = {}
    /\ pub_ret' = None
    /\ pub_effects' = <<>>
    /\ UNCHANGED <<credentials, signer, pool, dialog, show_ret,
                   relayVars, postVars, uploadVars, keyVars, credVars, uiVars, storeVars, fileVars>>

DialogInit ==
    /\ dialog = PublishDialogDefault
    /\ show_ret = None
    /\ task_pc = "none"
    /\ task_post = None
    /\ task_ret = None

\* The steps of the spawned task, which the runtime takes on its own.
TaskNext ==
    \/ TaskLock
    \/ TaskConnect
    \/ TaskPublish
    \/ PublishConnect
    \/ PublishSettle
    \/ PublishSign
    \/ PublishSend
    \/ TaskFinish

-----------------------------------------------------------------------------
(* The credential store of Storage (src/src/storage.rs) *)

\* The keyring entry and the file credentials.enc. The JSON and Base64 that
\* carry the credentials hold every field of NostrCredentials, so what is
\* read back is what was written.
StoreSelf == [keyring |-> keyring, file |-> cred_file]

\* Whether the keyring answers a call, and whether the file system does.
KeyringOutcomes == {"ok", "error"}
FileOutcomes    == {"ok", "error"}

ErrBothFailed    == "Both keyring and file storage failed"
ErrKeyringDelete == "Keyring delete failed"
ErrReadFile      == "Failed to read credentials file"

save_credentials_keyring_only(self, creds, k, f) ==
    [store |-> [keyring |-> IF k = "ok" THEN Some(creds) ELSE self.keyring,
                file    |-> self.file],
     ret   |-> IF k = "ok" \/ f = "ok" THEN Ok(<<>>) ELSE Err(ErrBothFailed)]

\* Storage::save_credentials: set_password on the keyring entry, then
\* save_credentials_to_file whatever the keyring did; Ok when either worked.
save_credentials(self, creds, k, f) ==
    [store |-> [keyring |-> IF k = "ok" THEN Some(creds) ELSE self.keyring,
                file    |-> IF f = "ok" THEN Some(creds) ELSE self.file],
     ret   |-> IF k = "ok" \/ f = "ok" THEN Ok(<<>>) ELSE Err(ErrBothFailed)]

\* Storage::load_credentials_from_file
load_credentials_from_file(self, f) ==
    IF self.file = None THEN Ok(None)
    ELSE IF f = "ok" THEN Ok(self.file)
    ELSE Err(ErrReadFile)

\* Storage::load_credentials: the keyring entry when get_password gives it,
\* the file when the keyring has no entry or fails.
load_credentials(self, k, f) ==
    IF k = "ok" /\ self.keyring # None THEN Ok(self.keyring)
    ELSE load_credentials_from_file(self, f)

\* Storage::delete_credentials: delete_credential on the keyring entry (no
\* entry counts as done), then delete_fallback_credentials; Ok when either
\* worked.
delete_credentials(self, k, f) ==
    LET file_fails == self.file # None /\ f = "error"
    IN  [store |-> [keyring |-> IF k = "ok" THEN None ELSE self.keyring,
                    file    |-> IF file_fails THEN self.file ELSE None],
         ret   |-> IF k = "ok" \/ ~file_fails THEN Ok(<<>>) ELSE Err(ErrKeyringDelete)]

\* The record of a call of the store.
StoreCall(op, k, f, ret) == Some([op |-> op, keyring |-> k, file |-> f, ret |-> ret])

StoreInit ==
    /\ keyring = None
    /\ cred_file = None
    /\ store_call = None
    /\ store_last_ok = None

-----------------------------------------------------------------------------
(* The top panel (src/src/app.rs) and the CredentialsDialog *)

TextSignedIn      == "Signed In"
TextNoCredentials == "No Credentials"

\* CredentialsDialog::default
CredentialsDialogDefault ==
    [open |-> FALSE, private_key |-> <<>>, error_message |-> None, success_message |-> None]

\* The private-key texts typed into the dialog: two keys and a text that is
\* no key.
TypedKeys == {KeyOneHex, KeyTwoHex, KeyShortHex}

\* What the user clicks in one frame of the dialog.
CredClicks == {"load", "save", "delete", "cancel"}

\* show_top_panel: the credentials indicator, from try_lock on the shared
\* client; false when the lock is taken.
ShowTopPanel ==
    /\ LET has_credentials == lock = "free" /\ credentials # None
       IN  creds_text' = IF has_credentials THEN TextSignedIn ELSE TextNoCredentials
    /\ UNCHANGED <<cred_dialog, cred_task, relayVars, postVars, clientVars, publishVars,
                   uploadVars, keyVars, dialogVars, credVars, storeVars, fileVars>>

\* The Nostr Credentials entry of the settings menu:
\* CredentialsDialog::open_with_storage.
CredDialogOpen(k, f) ==
    LET loaded == load_credentials(StoreSelf, k, f)
        opened == [cred_dialog EXCEPT !.open = TRUE, !.error_message = None,
                                      !.success_message = None]
    IN  /\ cred_dialog' =
              IF loaded.ok /\ loaded.value # None
                  THEN [opened EXCEPT !.private_key = loaded.value[1].private_key,
                                      !.success_message = Some("Existing credentials loaded")]
              ELSE IF loaded.ok
                  THEN [opened EXCEPT !.private_key = <<>>]
              ELSE [opened EXCEPT !.private_key = <<>>,
                                  !.error_message = Some(<<"Failed to load credentials",
                                                           loaded.error>>)]
        /\ store_call' = StoreCall("load", k, f, loaded)
        /\ UNCHANGED <<creds_text, cred_task, keyring, cred_file, store_last_ok,
                       relayVars, postVars, clientVars, publishVars, uploadVars, keyVars,
                       dialogVars, credVars, fileVars>>

\* The private key field of the open dialog is edited.
CredDialogType(private_key) ==
    /\ cred_dialog.open
    /\ cred_dialog' = [cred_dialog EXCEPT !.private_key = private_key]
    /\ UNCHANGED <<creds_text, cred_task, relayVars, postVars, clientVars, publishVars,
                   uploadVars, keyVars, dialogVars, credVars, storeVars, fileVars>>

\* The Load Existing Credentials button.
cred_dialog_load(self, loaded) ==
    IF loaded.ok /\ loaded.value # None
        THEN [self EXCEPT !.private_key = loaded.value[1].private_key,
                          !.success_message = Some("Credentials loaded")]
    ELSE IF loaded.ok
        THEN [self EXCEPT !.error_message = Some("No saved credentials found")]
    ELSE [self EXCEPT !.error_message = Some(<<"Failed to load credentials", loaded.error>>)]

\* The end of CredentialsDialog::show when close_dialog is set.
cred_dialog_close(self) ==
    [self EXCEPT !.open = FALSE, !.error_message = None, !.success_message = None]

\* One frame of CredentialsDialog::show with a click on one of its buttons;
\* k and f are what the keyring and the file system do in this frame. Save
\* stores the credentials and spawns the task that hands them to the client;
\* one such task is followed at a time.
CredDialogShow(click, k, f) ==
    /\ cred_dialog.open
    /\ click = "save" => cred_task = None
    /\ LET private_key == cred_dialog.private_key
           valid  == private_key # <<>> /\ ValidityOfInput[private_key]
           creds  == NostrCredentials(private_key, PublicKeyOfInput[private_key].value)
           saved  == save_credentials(StoreSelf, creds, k, f)
           loaded == load_credentials(StoreSelf, k, f)
           deleted == delete_credentials(StoreSelf, k, f)
       IN  CASE click = "load" ->
                  /\ cred_dialog' = cred_dialog_load(cred_dialog, loaded)
                  /\ store_call' = StoreCall("load", k, f, loaded)
                  /\ UNCHANGED <<cred_task, keyring, cred_file, store_last_ok, fileVars>>
             [] click = "save" /\ private_key = <<>> ->
                  UNCHANGED <<cred_dialog, cred_task, storeVars, fileVars>>
             [] click = "save" /\ private_key # <<>> /\ ~valid ->
                  /\ cred_dialog' = [cred_dialog EXCEPT
                                        !.error_message = Some("Invalid private key format")]
                  /\ UNCHANGED <<cred_task, storeVars, fileVars>>
             [] click = "save" /\ valid ->
                  /\ keyring' = saved.store.keyring
                  /\ cred_file' = saved.store.file
                  /\ store_call' = StoreCall("save", k, f, saved.ret)
                  /\ IF saved.ret.ok
                         THEN /\ cred_task' = Some(creds)
                              /\ store_last_ok' = Some([op |-> "save", creds |-> Some(creds)])
                              /\ cred_dialog' = cred_dialog_close(cred_dialog)
                         ELSE /\ cred_dialog' = [cred_dialog EXCEPT
                                                   !.error_message = Some(<<"Failed to save",
                                                                            saved.ret.error>>)]
                              /\ UNCHANGED <<cred_task, store_last_ok, fileVars>>
             [] click = "delete" ->
                  /\ keyring' = deleted.store.keyring
                  /\ cred_file' = deleted.store.file
                  /\ store_call' = StoreCall("delete", k, f, deleted.ret)
                  /\ IF deleted.ret.ok
                         THEN /\ store_last_ok' = Some([op |-> "delete", creds |-> None])
                              /\ cred_dialog' = [cred_dialog EXCEPT
                                                    !.private_key = <<>>,
                                                    !.success_message = Some("Credentials deleted")]
                         ELSE /\ cred_dialog' = [cred_dialog EXCEPT
                                                   !.error_message = Some(<<"Failed to delete",
                                                                            deleted.ret.error>>)]
                              /\ UNCHANGED store_last_ok
                  /\ UNCHANGED cred_task
             [] click = "cancel" ->
                  /\ cred_dialog' = cred_dialog_close(cred_dialog)
                  /\ UNCHANGED <<cred_task, storeVars, fileVars>>
    /\ UNCHANGED <<creds_text, relayVars, postVars, clientVars, publishVars, uploadVars,
                   keyVars, dialogVars, credVars, fileVars>>

\* The task Save spawned: try_lock, and set_credentials when the lock was
\* free; the result of set_credentials is dropped.
CredTaskRun ==
    /\ cred_task # None
    /\ cred_task' = None
    /\ IF lock = "free"
           THEN LET after == set_credentials(ClientSelf, cred_task[1])
                IN  /\ credentials' = after.credentials
                    /\ signer' = after.signer
                    /\ pool' = after.pool
                    /\ cred_call' = Some([creds |-> cred_task[1], before |-> ClientSelf,
                                          ret |-> after.ret])
           ELSE UNCHANGED <<credentials, signer, pool, cred_call, fileVars>>
    /\ UNCHANGED <<lock, creds_text, cred_dialog, relayVars, postVars, publishVars,
                   uploadVars, keyVars, dialogVars, storeVars, fileVars>>

UiInit ==
    /\ creds_text = TextNoCredentials
    /\ cred_dialog = CredentialsDialogDefault
    /\ cred_task = None

-----------------------------------------------------------------------------
(* The posts directory of Storage (src/src/storage.rs) *)

\* The most files the directory of the model holds.
MaxFiles == 2

\* char::is_alphanumeric for the characters of the model.
IsAlphanumeric(c) ==
    \/ Ascii[c] >= 48 /\ Ascii[c] <= 57
    \/ Ascii[c] >= 65 /\ Ascii[c] <= 90
    \/ Ascii[c] >= 97 /\ Ascii[c] <= 122

ExtensionMd == <<".","m","d">>

\* BlogPost::generate_filename
generate_filename(self) ==
    LET safe_title ==
            [i \in 1..Len(self.title) |->
                LET c == self.title[i]
                    mapped == IF IsAlphanumeric(c) \/ c = " " THEN c ELSE "_"
                IN  ToLower(IF mapped = " " THEN "_" ELSE mapped)]
    IN  IF safe_title = <<>>
            THEN <<"p","o","s","t","_">> \o UuidStr(self.id) \o ExtensionMd
            ELSE safe_title \o <<"_">> \o UuidStr(self.id) \o ExtensionMd

\* The Uuid BlogPost::default() draws while a file is parsed; no post has it.
UuidOfParse == 9

\* Vec::sort_by of load_all_posts: updated_at descending, stable.
RECURSIVE InsertByUpdatedAt(_, _)
InsertByUpdatedAt(sorted, p) ==
    IF sorted = <<>> THEN <<p>>
    ELSE IF sorted[Len(sorted)].updated_at >= p.updated_at THEN Append(sorted, p)
    ELSE Append(InsertByUpdatedAt(SubSeq(sorted, 1, Len(sorted) - 1), p), sorted[Len(sorted)])

RECURSIVE SortByUpdatedAt(_)
SortByUpdatedAt(seq) ==
    IF seq = <<>> THEN <<>>
    ELSE InsertByUpdatedAt(SortByUpdatedAt(SubSeq(seq, 1, Len(seq) - 1)), seq[Len(seq)])

\* Storage::load_post
load_post(file, t) ==
    from_markdown_with_frontmatter(file.text, Some(file.name), BlogPostDefault(UuidOfParse, t))

\* Storage::load_all_posts with the files in the order read_dir gives them.
load_all_posts(entries, t) ==
    SortByUpdatedAt([i \in 1..Len(entries) |-> load_post(entries[i], t)])

\* The editor's Save: App::save_post and Storage::save_post write the text of
\* the post to the file named by generate_filename, which replaces a file of
\* that name, and the post gets the path.
SavePost ==
    LET filename == generate_filename(post)
        others   == {file \in posts_dir : file.name # filename}
    IN  /\ Cardinality(others) < MaxFiles
        /\ posts_dir' = others \cup {[name |-> filename,
                                      text |-> to_markdown_with_frontmatter(post)]}
        /\ post' = [post EXCEPT !.file_path = Some(filename)]
        /\ markdown_ret' = None
        /\ parse_ret' = None
        /\ loaded_posts' = None
        /\ UNCHANGED <<now, relayVars, clientVars, publishVars, uploadVars, keyVars,
                       dialogVars, credVars, uiVars, storeVars>>

\* Storage::load_all_posts at the start of the application; read_dir gives
\* the files in any order.
LoadAllPosts ==
    /\ \E entries \in Orderings(posts_dir) :
          loaded_posts' = Some(load_all_posts(entries, now))
    /\ UNCHANGED <<posts_dir, relayVars, postVars, clientVars, publishVars, uploadVars,
                   keyVars, dialogVars, credVars, uiVars, storeVars>>

FileInit ==
    /\ posts_dir = {}
    /\ loaded_posts = None

-----------------------------------------------------------------------------
(* Specifications *)

Init == RelayInit /\ PostInit /\ ClientInit /\ PublishInit /\ UploadInit /\ KeyInit /\ DialogInit /\ CredInit /\ UiInit /\ StoreInit /\ FileInit

\* The relay settings and the relay dialog.
SpecRelay == Init /\ [][RelayNext]_vars

\* A post under its editing operations and its backing text format.
SpecPost == Init /\ [][PostNext]_vars

\* The editing and status operations of a post, which all keep the clock.
EditCalls ==
    \/ \E title \in TitleInputs : WithTitle(title)
    \/ \E content \in ContentInputs : WithContent(content)
    \/ \E tag \in TagInputs : AddTag(tag)
    \/ \E tag \in TagInputs : RemoveTag(tag)
    \/ SetImage(ImageUrl)
    \/ SetPublished(EventIdHex, <<UrlCustom>>)
    \/ SetFailed

\* The client as App::new leaves it when the credential store holds a key.
ClientLoaded(creds) ==
    LET self == set_credentials(NostrClientNew, creds)
    IN  /\ credentials = self.credentials
        /\ signer = self.signer
        /\ pool = self.pool
        /\ lock = "free"

\* One custom relay in use, the stored credentials loaded, one post open.
EventInit ==
    /\ custom_relays = <<UrlCustom>>
    /\ use_default_relays = FALSE
    /\ use_custom_relays = TRUE
    /\ relay_call = NoCall
    /\ active_ret = <<>>
    /\ PostInit
    /\ ClientLoaded(CredHex)
    /\ PublishInit
    /\ UploadInit
    /\ KeyInit
    /\ DialogInit
    /\ CredInit
    /\ UiInit
    /\ StoreInit
    /\ FileInit

\* The call works on its own copy of the post, so the edits are taken between
\* two calls.
EventNext ==
    \/ pub_pc = "idle" /\ \E id \in PostIds : NewPost(id)
    \/ pub_pc = "idle" /\ EditCalls
    \/ PublishNext

\* Posts edited and published again and again over one relay.
SpecEvent == EventInit /\ [][EventNext]_vars

ContentBlank == <<" ", "\n">>

\* The posts a publish is asked for: one ready, one with a blank title, one
\* with a blank content, one with no content.
PublishPosts ==
    {[BlogPostDefault(1, 0) EXCEPT !.title = title, !.content = content, !.tags = tags] :
        <<title, content, tags>> \in {<<TitleNew, ContentBody, <<TagB, TagA>> >>,
                                     <<TitleBlank, ContentBody, <<>> >>,
                                     <<TitleNew, ContentBlank, <<>> >>,
                                     <<TitleNew, <<>>, <<>> >>}}

\* The default relay settings, a client that may or may not have found
\* stored credentials, and a post.
PublishSpecInit ==
    /\ RelayInit
    /\ now = 0
    /\ post \in PublishPosts
    /\ markdown_ret = None
    /\ parse_ret = None
    /\ ClientInit
    /\ PublishInit
    /\ UploadInit
    /\ KeyInit
    /\ DialogInit
    /\ CredInit
    /\ UiInit
    /\ StoreInit
    /\ FileInit

PublishSpecNext ==
    \/ \E creds \in CredInputs : SetCredentials(creds)
    \/ PublishNext

\* One post published over the five default relays.
SpecPublish == PublishSpecInit /\ [][PublishSpecNext]_vars

\* The clock, the credentials dialog and the file dialog take their turns
\* while no upload runs: upload_featured_image blocks the interface until
\* upload_file has returned.
UploadSpecNext ==
    \/ up_pc = "idle" /\ Tick
    \/ up_pc = "idle" /\ \E creds \in CredInputs : SetCredentials(creds)
    \/ UploadNext

\* Files uploaded to the media host, before and after credentials are set.
SpecUpload == Init /\ [][UploadSpecNext]_vars

\* The private-key functions applied to the texts of the credentials dialog.
SpecKeys == Init /\ [][KeyNext]_vars

\* The stored relay settings hold one custom relay; a post is open.
DialogSpecInit ==
    /\ custom_relays = <<UrlCustom>>
    /\ use_default_relays = FALSE
    /\ use_custom_relays = TRUE
    /\ relay_call = NoCall
    /\ active_ret = <<>>
    /\ now = 0
    /\ post \in PublishPosts
    /\ markdown_ret = None
    /\ parse_ret = None
    /\ ClientInit
    /\ PublishInit
    /\ UploadInit
    /\ KeyInit
    /\ DialogInit
    /\ CredInit
    /\ UiInit
    /\ StoreInit
    /\ FileInit

\* The interface thread takes one thing at a time, and upload_featured_image
\* keeps it until upload_file has returned; the dialog is followed through
\* one task at a time: it is not opened again between the spawning of a task
\* and the task's first step.  The task and a running upload take their steps on
\* the runtime.
DialogSpecNext ==
    \/ up_pc = "idle" /\ SetCredentials(CredHex)
    \/ up_pc = "idle" /\ task_pc # "spawned" /\ DialogOpen
    \/ up_pc = "idle" /\ ShowTopPanel
    \/ up_pc = "idle" /\ \E click \in Clicks : DialogShow(click)
    \/ TaskNext
    \/ UploadNext

\* The runtime keeps running a spawned task and a started upload, and the
\* interface keeps drawing frames.
DialogFairness ==
    /\ WF_vars(TaskNext)
    /\ WF_vars(UploadAuth \/ UploadPut \/ UploadResponse \/ UploadReturn)
    /\ WF_vars(up_pc = "idle" /\ DialogShow("none"))

\* Posts published from the publish dialog, with uploads in between.
SpecDialog == DialogSpecInit /\ [][DialogSpecNext]_vars /\ DialogFairness

\* The credentials dialog over a keyring and a file system that work or fail
\* from one call to the next.
StoreSpecNext ==
    \/ \E k \in KeyringOutcomes, f \in FileOutcomes : CredDialogOpen(k, f)
    \/ \E private_key \in TypedKeys : CredDialogType(private_key)
    \/ \E click \in CredClicks, k \in KeyringOutcomes, f \in FileOutcomes :
          CredDialogShow(click, k, f)
    \/ CredTaskRun

\* Credentials saved, loaded and deleted in the credentials dialog.
SpecStore == Init /\ [][StoreSpecNext]_vars

\* The application starts with a post that is ready to publish.
CredSpecInit ==
    /\ DialogSpecInit
    /\ is_ready_to_publish(post)

\* The interface thread opens and draws the two dialogs, over a keyring and
\* a file system that work; the task of the credentials dialog and the task
\* of the publish dialog take their steps on the runtime.
CredSpecNext ==
    \/ CredDialogOpen("ok", "ok")
    \/ \E private_key \in TypedKeys : CredDialogType(private_key)
    \/ \E click \in {"save", "cancel"} : CredDialogShow(click, "ok", "ok")
    \/ CredTaskRun
    \/ task_pc # "spawned" /\ DialogOpen
    \/ \E click \in Clicks : DialogShow(click)
    \/ TaskNext

\* The runtime keeps running the tasks that were spawned.
CredFairness ==
    /\ WF_vars(CredTaskRun)
    /\ WF_vars(TaskNext)

\* Credentials saved in the credentials dialog while a ready post is
\* published from the publish dialog.
SpecCredentials ==
    /\ CredSpecInit
    /\ [][CredSpecNext]_vars
    /\ CredFairness

\* New posts, changes of the title, saves, and the loading of the directory.
FileSpecNext ==
    \/ \E id \in PostIds : NewPost(id)
    \/ \E title \in TitleInputs : WithTitle(title)
    \/ SavePost
    \/ LoadAllPosts

\* Posts edited and saved to the posts directory.
SpecFiles == Init /\ [][FileSpecNext]_vars

-----------------------------------------------------------------------------
(* Properties of RelaySettings *)

\* The value the last get_active_relays call returned.
LastActive == active_ret[Len(active_ret)]

\* C7: whatever the two flags and the custom list are, get_active_relays
\* returns a non-empty list, and with both flags false it returns the five
\* default relays.
C7_ActiveRelaysNeverEmpty ==
    relay_call.op = "get" =>
        /\ LastActive # <<>>
        /\ (~use_default_relays /\ ~use_custom_relays) =>
              /\ LastActive = get_default_relays
              /\ Len(LastActive) = 5

\* get_active_relays was called with both flags false and a custom list that
\* is not empty.
C7_Witness ==
    /\ relay_call.op = "get"
    /\ ~use_default_relays /\ ~use_custom_relays
    /\ custom_relays # <<>>

\* C8: get_active_relays leaves the settings as they were, returns no URL
\* twice, and a second call with unchanged settings returns the same list in
\* the same order.
C8_GetActiveRelaysIdempotent ==
    relay_call.op = "get" =>
        /\ RelaySelf = relay_call.before
        /\ NoDup(LastActive)
        /\ Len(active_ret) = 2 => active_ret[1] = active_ret[2]

\* get_active_relays was called twice on settings that use both lists, the
\* custom list holding a default relay.
C8_Witness ==
    /\ relay_call.op = "get"
    /\ Len(active_ret) = 2
    /\ use_default_relays /\ use_custom_relays
    /\ Contains(custom_relays, RelayNosLol)

\* C9: add_relay with a URL already in custom_relays returns an error and
\* leaves custom_relays as it was; custom_relays, empty at first, never holds
\* a URL twice.
C9_AddRelayRejectsDuplicate ==
    /\ (relay_call.op = "add" /\ Contains(relay_call.before.custom_relays, relay_call.url)) =>
          /\ ~relay_call.ok
          /\ custom_relays = relay_call.before.custom_relays
    /\ NoDup(custom_relays)

\* add_relay was given a well-formed URL that custom_relays already held.
C9_Witness ==
    /\ relay_call.op = "add"
    /\ relay_call.url = UrlCustom
    /\ Contains(relay_call.before.custom_relays, UrlCustom)

\* C14: with only use_default_relays set, get_active_relays returns the five
\* default relays; with both flags set it returns the union of the defaults
\* and custom_relays, each URL once, of length 5 plus the number of custom
\* URLs that are no default relay; and the relays connect_to_relays adds to
\* an empty pool from that list, which are the ones dialed, hold none twice.
C14_ActiveRelaysAreTheUnion ==
    relay_call.op = "get" =>
        LET defaults == Range(get_default_relays)
            customs  == Range(custom_relays)
            dialed   == add_relays({}, LastActive).added
        IN  /\ (use_default_relays /\ ~use_custom_relays) =>
                  /\ Range(LastActive) = defaults
                  /\ Len(LastActive) = 5
            /\ (use_default_relays /\ use_custom_relays) =>
                  /\ Range(LastActive) = defaults \cup customs
                  /\ Len(LastActive) = 5 + Cardinality(customs \ defaults)
            /\ NoDup(LastActive)
            /\ NoDup(dialed)
            /\ Range(dialed) = {UrlParse(url)[1] : url \in Range(LastActive)}

\* get_active_relays was called with both flags set and a custom list that
\* holds a default relay and a relay of its own.
C14_Witness ==
    /\ relay_call.op = "get"
    /\ use_default_relays /\ use_custom_relays
    /\ custom_relays = <<UrlCustom, RelayNosLol>>
    /\ Len(LastActive) = 6

HasWsHost(url) ==
    \/ StartsWith(url, WsScheme) /\ Len(url) > Len(WsScheme)
    \/ StartsWith(url, WssScheme) /\ Len(url) > Len(WssScheme)

\* C13: validate_relay_url accepts every ws:// or wss:// URL that has a host,
\* a host without a dot such as localhost:8080 included, and rejects every
\* URL of another scheme or with nothing after the scheme.
C13_ValidateAcceptsEveryHost ==
    relay_call.op = "validate" => (relay_call.ret.ok <=> HasWsHost(relay_call.url))

\* C24: every URL add_relay accepts is one validate_relay_url accepts, so
\* that every entry of custom_relays has the scheme ws:// or wss://, at least
\* 10 characters and a dot.
C24_CustomRelaysAreValid ==
    /\ (relay_call.op = "add" /\ relay_call.ok) => validate_relay_url(relay_call.url).ok
    /\ \A i \in 1..Len(custom_relays) : validate_relay_url(custom_relays[i]).ok

-----------------------------------------------------------------------------
(* Properties of BlogPost and its backing text format *)

\* C6: the post parsed from the text to_markdown_with_frontmatter wrote for
\* a post equals that post in title, id, created_at, updated_at, status, tags
\* (as a set), image reference and nostr event id.
C6_RoundTrip ==
    parse_ret # None =>
        /\ parse_ret[1].title = post.title
        /\ parse_ret[1].id = post.id
        /\ parse_ret[1].created_at = post.created_at
        /\ parse_ret[1].updated_at = post.updated_at
        /\ parse_ret[1].status = post.status
        /\ Range(parse_ret[1].tags) = Range(post.tags)
        /\ parse_ret[1].image_url = post.image_url
        /\ parse_ret[1].nostr_event_id = post.nostr_event_id

\* C28: the post parsed from the text to_markdown_with_frontmatter wrote for
\* a post has exactly the Markdown body of that post.
C28_BodyRoundTrip ==
    parse_ret # None => parse_ret[1].content = post.content

\* What every call of an editing or status operation other than add_tag does
\* to the post, as a property of the step.
EditsSetUpdatedAt ==
    /\ (\E title \in TitleInputs : WithTitle(title)) => post'.updated_at = now
    /\ (\E content \in ContentInputs : WithContent(content)) => post'.updated_at = now
    /\ (\E tag \in TagInputs : RemoveTag(tag)) => post'.updated_at = now
    /\ SetImage(ImageUrl) => post'.updated_at = now
    /\ SetPublished(EventIdHex, <<UrlCustom>>) =>
          /\ post'.updated_at = now
          /\ post'.status = StatusPublished
          /\ post'.nostr_event_id = Some(EventIdHex)
          /\ post'.published_relays = <<UrlCustom>>
    /\ SetFailed =>
          /\ post'.updated_at = now
          /\ post'.status = StatusFailed

\* C23 as stated: every call of with_title, with_content, add_tag,
\* remove_tag, set_image, set_published and set_failed sets updated_at to the
\* time of the call; set_published sets the status Published, the event id
\* and the relay list, set_failed sets the status Failed.
C23_EveryCallSetsUpdatedAt ==
    [][/\ EditsSetUpdatedAt
       /\ (\E tag \in TagInputs : AddTag(tag)) => post'.updated_at = now]_vars

\* C23, amended: as stated for every operation but add_tag; add_tag of a tag
\* the post does not have appends it and sets updated_at to the time of the
\* call, add_tag of a tag the post has leaves the post as it is, updated_at
\* included.
C23_CallsSetUpdatedAtButAddTagOfOldTag ==
    [][/\ EditsSetUpdatedAt
       /\ \A tag \in TagInputs :
             AddTag(tag) =>
                 IF Contains(post.tags, tag)
                     THEN post' = post
                     ELSE /\ post'.updated_at = now
                          /\ post'.tags = Append(post.tags, tag)]_vars

\* A post marked failed some time after it was made, and a post whose last
\* tag was added some time after it was made.
C23_Witness ==
    /\ now > 0
    /\ post.created_at = 0
    /\ post.updated_at = now
    /\ post.status = StatusFailed
    /\ post.tags # <<>>

-----------------------------------------------------------------------------
(* Properties of publish_long_form_post *)

TagsOfKind(tags, kind) == SelectSeq(tags, LAMBDA t : t.kind = kind)

Values(tags) == [i \in 1..Len(tags) |-> tags[i].value]

\* C1: for a post whose title and content are not blank after trimming,
\* publish_long_form_post builds an event with exactly one title tag, exactly
\* one published_at tag, exactly one identifier tag whose value is "blogster-"
\* followed by the post id, and one hashtag tag per tag of the post, in the
\* order of post.tags.
C1_LongFormTags ==
    /\ pub_pc \in {"connecting", "settling", "signing", "sending"} => event_tags # None
    /\ event_tags # None =>
          LET tags == event_tags[1]
              p    == pub_post[1]
          IN  /\ Trim(p.title) # <<>> /\ Trim(p.content) # <<>>
              /\ Values(TagsOfKind(tags, "title")) = <<p.title>>
              /\ Len(TagsOfKind(tags, "published_at")) = 1
              /\ Values(TagsOfKind(tags, "d")) = <<IdentifierPrefix \o UuidStr(p.id)>>
              /\ Values(TagsOfKind(tags, "t")) = p.tags

\* The event was built for a post with a summary, an image and the tags b, a.
C1_Witness ==
    /\ event_tags # None
    /\ pub_post[1].tags = <<TagB, TagA>>
    /\ pub_post[1].summary # None
    /\ pub_post[1].image_url # None
    /\ Len(event_tags[1]) = 7

\* C2 as stated: a post whose title or content is blank after trimming makes
\* publish_long_form_post return the validation error, with no relay
\* connection, no signing and no submission.
C2_BlankPostValidationError ==
    (pub_post # None /\ (Trim(pub_post[1].title) = <<>> \/ Trim(pub_post[1].content) = <<>>)) =>
        /\ pub_pc = "done"
        /\ pub_ret = Some(Err(ErrNotReady))
        /\ pub_effects = <<>>
        /\ signed_event = None

\* C2, amended: such a post makes publish_long_form_post return at once with
\* an error, the validation error when the client holds credentials and the
\* no-credentials error when it holds none, with no relay connection, no
\* signing and no submission.
C2_BlankPostRejected ==
    (pub_post # None /\ (Trim(pub_post[1].title) = <<>> \/ Trim(pub_post[1].content) = <<>>)) =>
        /\ pub_pc = "done"
        /\ pub_ret = Some(Err(IF credentials = None THEN ErrNoCredentials ELSE ErrNotReady))
        /\ pub_effects = <<>>
        /\ event_tags = None
        /\ signed_event = None

\* publish_long_form_post returned for a post with a title of one space, on
\* a client that holds credentials.
C2_Witness ==
    /\ pub_pc = "done"
    /\ credentials # None
    /\ pub_post[1].title = TitleBlank
    /\ pub_post[1].content = ContentBody

\* C3: publish_long_form_post returns Ok exactly when at least one relay
\* accepted the event; Ok carries the event id and exactly the accepting
\* relays, none twice and none whose connection failed; Err carries no event
\* id.
C3_PublishSucceedsIffAccepted ==
    pub_pc = "done" =>
        LET ret == pub_ret[1]
        IN  /\ ret.ok <=> relay_acks # {}
            /\ ret.ok =>
                  /\ ret.value.event_id = signed_event[1]
                  /\ Range(ret.value.relays) = relay_acks
                  /\ NoDup(ret.value.relays)
                  /\ Range(ret.value.relays) \subseteq relay_up
            /\ ~ret.ok => DOMAIN ret = {"ok", "error"}

\* Two of the five relays failed to connect and the other three accepted.
C3_Witness ==
    /\ pub_pc = "done"
    /\ Cardinality(pool) = 5
    /\ Cardinality(relay_up) = 3
    /\ relay_acks = relay_up
    /\ pub_ret[1].ok
    /\ Len(pub_ret[1].value.relays) = 3

\* The steps of publish_long_form_post after its checks, in their order.
PublishOrder == <<"connect", "settled", "sign", "send">>

\* C15: within one publish_long_form_post call every relay of the active set
\* is added and the connection started, then the settling delay runs to its
\* end, and only then the event is signed and then submitted.
C15_ConnectSettleSignSend ==
    /\ pub_effects = SubSeq(PublishOrder, 1, Len(pub_effects))
    /\ pub_effects # <<>> =>
          {UrlParse(url)[1] : url \in Range(get_active_relays(pub_settings[1]))} \subseteq pool
    /\ signed_event # None => Len(pub_effects) >= 3
    /\ relay_acks # {} => Len(pub_effects) = 4

\* An event was submitted to the five relays and accepted by some.
C15_Witness ==
    /\ pub_pc = "done"
    /\ pub_effects = PublishOrder
    /\ Cardinality(pool) = 5
    /\ relay_acks # {}

\* The identifier tags of the event being built agree with those of the
\* event built before exactly when the two posts have the same id.
C10_SameIdSameIdentifier ==
    (event_tags # None /\ last_built # None) =>
        ((pub_post[1].id = last_built[1].id)
            <=> (TagsOfKind(event_tags[1], "d") = last_built[1].tags))

\* C10: the identifier tag of the long-form event depends on the post id
\* only: two events built for the same id carry the same identifier tag
\* whatever else differs, two events for different ids carry different ones,
\* and no editing or status operation changes the id of the post.
C10_IdentifierDependsOnlyOnId ==
    /\ []C10_SameIdSameIdentifier
    /\ [][EditCalls => post'.id = post.id]_vars

\* An event is built for the post published before, whose title, status and
\* event id have changed since.
C10_Witness ==
    /\ event_tags # None
    /\ last_built # None
    /\ pub_post[1].id = last_built[1].id
    /\ pub_post[1].title # last_built[1].title
    /\ pub_post[1].status = StatusPublished
    /\ pub_post[1].tags # <<>>

-----------------------------------------------------------------------------
(* Properties of upload_file *)

\* C4: while the shared NostrClient holds no credentials, no signing request
\* succeeds, so upload_file gets no Authorization header, sends no HTTP
\* request and returns an error.
C4_NoCredentialsNoSigning ==
    credentials = None =>
        /\ up_auth = None
        /\ http_requests = <<>>
        /\ up_pc = "done" => ~up_ret[1].ok

\* The media host answered the PUT with a success status and a JSON body
\* whose sha256 is not the digest upload_file computed.
ShaMismatch ==
    /\ up_pc = "done"
    /\ up_resp # None
    /\ up_resp[1].sent
    /\ up_resp[1].status >= 200 /\ up_resp[1].status < 300
    /\ up_resp[1].json # None
    /\ up_resp[1].json[1].sha256 # up_hash[1]

\* C5: when the media host answers with a success status and a SHA-256 other
\* than the digest computed from the file, upload_file returns Ok with the
\* URL the server gave, and logs a warning about the mismatch.
C5_ShaMismatchStillOk ==
    ShaMismatch =>
        /\ up_ret = Some(Ok(up_resp[1].json[1].url))
        /\ "warn: SHA256 mismatch" \in up_log

\* upload_file returned for the PNG file after the server reported the digest
\* of another content.
C5_Witness ==
    /\ ShaMismatch
    /\ up_file[1].content = Some(BytesPng)
    /\ up_resp[1].json[1].sha256 = Sha256Hex(BytesOther)
    /\ Len(http_requests) = 1

\* C21: the authorization event of an upload_file call has kind 24242, the
\* content "Upload " and the base name of the file, and the tags t=upload,
\* x=the SHA-256 of the bytes sent as the request body, in hexadecimal, and
\* expiration=the time of building plus 600 seconds; the x tag is the digest
\* upload_file computed, and every request carries the header of its call.
C21_AuthorizationEvent ==
    /\ up_auth # None =>
          LET event == up_auth[1].event
          IN  /\ up_auth[1].scheme = "Nostr"
              /\ event.kind = 24242
              /\ event.content = <<"U","p","l","o","a","d"," ">> \o file_name(up_file[1].path)
              /\ event.tags = <<Tag("t", <<"u","p","l","o","a","d">>),
                                Tag("x", up_hash[1]),
                                Tag("expiration", to_string(timestamp(now) + 600))>>
    /\ \A i \in DOMAIN http_requests :
          /\ up_auth # None
          /\ http_requests[i].authorization = up_auth[1]
          /\ Tag("x", Sha256Hex(http_requests[i].body)) \in Range(up_auth[1].event.tags)

\* A file was sent with its authorization after the clock had moved on.
C21_Witness ==
    /\ Len(http_requests) = 1
    /\ http_requests[1].body = BytesPng
    /\ now > 0
    /\ up_auth[1].event.content = <<"U","p","l","o","a","d"," ","a",".","P","N","G">>

\* C20: when the media host answers with a status that is not a success,
\* upload_file returns an error that carries the status and the body, gives
\* no URL, and does not read the body as an upload result.
C20_NonSuccessStatusIsError ==
    (up_pc = "done" /\ up_resp # None /\ up_resp[1].sent
         /\ ~is_success(up_resp[1].status)) =>
        /\ up_ret = Some(Err(<<"Blossom upload failed with status",
                               up_resp[1].status, up_resp[1].text>>))
        /\ "info: uploaded" \notin up_log

\* The media host answered 500 with a body that reads as an upload result.
C20_Witness ==
    /\ up_pc = "done"
    /\ up_resp # None
    /\ up_resp[1].sent
    /\ up_resp[1].status = 500
    /\ up_resp[1].json # None
    /\ ~up_ret[1].ok

-----------------------------------------------------------------------------
(* Properties of the publish dialog and its task *)

\* C16: the lock of the shared NostrClient is held only while an event is
\* being signed: whenever it is taken, the holder is at its sign call, after
\* the relays were connected and the settling delay is over, so that no task
\* holds it across connecting, settling or sending.
C16_LockHeldOnlyToSign ==
    lock # "free" =>
        /\ pub_pc = "signing"
        /\ "settled" \in Range(pub_effects)

\* An upload waits for the lock to sign its authorization while the publish
\* task, which holds it, has not yet connected.
C16_UploaderBlocked ==
    /\ up_pc = "auth"
    /\ lock = "publish"
    /\ task_pc = "connecting"

\* The outcome of the task has reached the interface: for a success, show
\* returned the post marked Published with the event id and the relays; for
\* a failure, the dialog shows the error.
Reported ==
    /\ task_ret # None
    /\ IF task_ret[1].ok
           THEN /\ show_ret # None
                /\ show_ret[1].status = StatusPublished
                /\ show_ret[1].nostr_event_id = Some(task_ret[1].value.event_id)
                /\ show_ret[1].published_relays = task_ret[1].value.relays
           ELSE dialog.error_message = Some(task_ret[1].error)

\* C17: every publish started from the dialog leads to its outcome being
\* reported to the interface.
C17_OutcomeReported == (task_ret # None) ~> Reported

\* C18: in the dialog flow a validation error is found before any relay is
\* connected and before anything is signed.
C18_ValidationBeforeConnecting ==
    (pub_ret # None /\ pub_ret[1] \in {Err(ErrNoCredentials), Err(ErrNotReady)}) =>
        pub_effects = <<>>

\* C19: within one attempt every phase is entered at most once: the relays
\* are connected once, the settling delay is waited once, the event is
\* signed once and sent once, in this order.
C19_EachPhaseOnce ==
    /\ \A effect \in Range(PublishOrder) :
          Cardinality({i \in DOMAIN pub_effects : pub_effects[i] = effect}) <= 1
    /\ \A i, j \in DOMAIN pub_effects :
          i < j => LastIndex(PublishOrder, pub_effects[i]) <= LastIndex(PublishOrder, pub_effects[j])

\* C26: a click on Publish starts a publish whenever the client has
\* credentials loaded, and shows the no-credentials error otherwise; the top
\* panel draws "No Credentials" exactly when no credentials are loaded;
\* both also while another task holds the lock of the client.
C26_PublishStartsWithCredentials ==
    [][/\ DialogShow("publish") =>
             IF credentials # None
                 THEN /\ task_pc' = "spawned"
                      /\ dialog'.error_message = dialog.error_message
                 ELSE /\ task_pc' = task_pc
                      /\ dialog'.error_message = Some(ErrDialogNoCredentials)
       /\ ShowTopPanel => (creds_text' = TextNoCredentials <=> credentials = None)]_vars

\* C27: once the task of a publish started from the dialog has finished, the
\* dialog leaves the publishing state: is_publishing becomes false or the
\* dialog is closed.
C27_LeavesPublishingState ==
    (task_pc = "none" /\ task_ret # None) ~> (~dialog.is_publishing \/ ~dialog.open)

\* C25: after the credentials dialog has stored credentials and spawned the
\* task that hands them to the client, the client eventually holds exactly
\* these credentials, whoever holds the lock of the client at that moment.
C25_SavedCredentialsReachClient ==
    \A private_key \in TypedKeys :
        (cred_task # None /\ cred_task[1].private_key = private_key)
            ~> (credentials # None /\ credentials[1].private_key = private_key)

-----------------------------------------------------------------------------
(* Properties of the credential store *)

\* C30: the credential store reflects the last operation that returned Ok,
\* whatever the keyring and the file did during it: a load_credentials that
\* finds the keyring and the file system working returns the credentials of
\* the last save_credentials that returned Ok, and no credentials after a
\* delete_credentials that returned Ok.
C30_StoreReflectsLastOk ==
    (/\ store_call # None
     /\ store_call[1].op = "load"
     /\ store_call[1].keyring = "ok"
     /\ store_call[1].file = "ok"
     /\ store_last_ok # None) =>
        store_call[1].ret = Ok(store_last_ok[1].creds)

-----------------------------------------------------------------------------
(* Properties of the posts directory *)

\* C29: the posts directory holds at most one file per post id, and
\* load_all_posts never returns two posts with the same id.
C29_OneFilePerPost ==
    /\ \A a, b \in posts_dir :
          load_post(a, now).id = load_post(b, now).id => a = b
    /\ loaded_posts # None =>
          \A i, j \in 1..Len(loaded_posts[1]) :
              loaded_posts[1][i].id = loaded_posts[1][j].id => i = j

-----------------------------------------------------------------------------
(* Properties of set_credentials *)

\* C22: set_credentials with a private key text that reads neither as nsec
\* nor as hexadecimal returns an error and leaves the client as it was: the
\* credentials and the signing key of before stay, and what is signed
\* afterwards is signed with that key.
C22_BadKeyLeavesClient ==
    (cred_call # None /\ ~ValidityOfInput[cred_call[1].creds.private_key]) =>
        /\ cred_call[1].ret = (IF StartsWith(cred_call[1].creds.private_key, NsecPrefix)
                                  THEN Err(ErrInvalidNsec) ELSE Err(ErrInvalidKey))
        /\ credentials = cred_call[1].before.credentials
        /\ signer = cred_call[1].before.signer
        /\ up_auth # None => up_auth[1].event.pubkey = cred_call[1].before.signer.secret

\* A client that holds credentials was given a hexadecimal text that is too
\* short, and an upload was signed afterwards.
C22_Witness ==
    /\ cred_call # None
    /\ cred_call[1].creds = CredShort
    /\ cred_call[1].before.credentials = Some(CredHex)
    /\ up_auth # None
    /\ up_auth[1].event.pubkey = KeyOneHex

-----------------------------------------------------------------------------
(* Properties of the private-key functions *)

\* The same secret as hexadecimal text and as NIP-19 text, as the reference
\* encoder of NIP-19 gives them.
KeyPairs ==
    {<<KeyOneHex, KeyOneNsec>>, <<KeyTwoHex, KeyTwoNsec>>,
     <<KeyVecHex, KeyVecNsec>>, <<KeyVecHexUpper, KeyVecNsec>>}

\* C11: get_public_key_from_private returns the same public key, in
\* hexadecimal, for a secret given as hexadecimal text and for the same
\* secret given as nsec text.
C11_HexAndNsecSamePublicKey ==
    \A i, j \in 1..Len(key_calls) :
        (/\ key_calls[i].op = "get_public_key_from_private"
         /\ key_calls[j].op = "get_public_key_from_private"
         /\ <<key_calls[i].private_key, key_calls[j].private_key>> \in KeyPairs) =>
            /\ key_calls[i].ret.ok
            /\ key_calls[i].ret = key_calls[j].ret

\* The public key of the key of the NIP-19 examples was asked for by its
\* hexadecimal text and then by its nsec text.
C11_Witness ==
    /\ Len(key_calls) = 2
    /\ key_calls[1].op = "get_public_key_from_private"
    /\ key_calls[2].op = "get_public_key_from_private"
    /\ key_calls[1].private_key = KeyVecHex
    /\ key_calls[2].private_key = KeyVecNsec
    /\ key_calls[2].ret = Ok(KeyVecPublic)

=============================================================================
